---- MODULE Spec2Model ----
\* A model of KubernetesObjectApi (src/unnamed/part_001): the resource-metadata
\* cache and its resolver (resource), the path builder (specUriPath), the six
\* object operations and requestPromise, with several calls in flight at once.
\*
\* Strings are sequences of one-character strings, so that toLowerCase,
\* encodeURIComponent, join, split and includes are computed character by
\* character.  The JavaScript value undefined (and null, which the code never
\* tells apart from it) is the distinguished value Undefined.
EXTENDS Naturals, Sequences, FiniteSets, TLC

VARIABLES
    contextNamespace,          \* the namespace of kc's current context, if any
    defaultNamespace,          \* this.defaultNamespace
    apiVersionResourceCache,   \* this.apiVersionResourceCache
    call,                      \* per caller: the operation it has in flight
    fetched,                   \* history: (apiVersion, kind) pairs some stored response contained
    watcher                    \* whether this.watcher is set

vars == <<contextNamespace, defaultNamespace, apiVersionResourceCache, call, fetched, watcher>>

----------------------------------------------------------------------------
\* Values

Undefined == <<"undefined">>

EmptyString == <<>>

\* JavaScript truthiness of a string-or-undefined value: !x
Falsy(x) == x = Undefined \/ x = EmptyString

V1 == <<"v", "1">>

GroupV1 == <<"G", "/", "v", "1">>

Pod == <<"P", "o", "d">>

Node == <<"N", "o", "d", "e">>

Status == <<"S", "t", "a", "t", "u", "s">>

\* this.basePath, the server URL the client was configured with
basePath == <<"h", ":", "/", "/", "K", "8">>

\* The six verbs of KubernetesApiAction.
KubernetesApiAction == {"create", "delete", "patch", "read", "list", "replace"}

\* V1APIResource values the server may list: kind, plural name, namespaced.
PodNs == [kind |-> Pod, name |-> <<"p", "o", "d", "s">>, namespaced |-> TRUE]

PodCl == [kind |-> Pod, name |-> <<"p", "o">>, namespaced |-> FALSE]

NodeCl == [kind |-> Node, name |-> <<"n", "o", "d", "e", "s">>, namespaced |-> FALSE]

\* What Array.prototype.find returns when nothing matches.
NoResource == [kind |-> Undefined, name |-> Undefined, namespaced |-> FALSE]

\* A cache slot: absent, or a V1APIResourceList.
NoEntry == [present |-> FALSE, resources |-> <<>>]

Entry(list) == [present |-> TRUE, resources |-> list]

----------------------------------------------------------------------------
\* String primitives

\* String.prototype.toLowerCase on one character
LowerChar(ch) ==
    CASE ch = "A" -> "a" [] ch = "B" -> "b" [] ch = "C" -> "c" [] ch = "D" -> "d"
      [] ch = "F" -> "f" [] ch = "G" -> "g" [] ch = "K" -> "k" [] ch = "N" -> "n"
      [] ch = "P" -> "p" [] ch = "S" -> "s" [] ch = "V" -> "v" [] ch = "X" -> "x"
      [] OTHER -> ch

toLowerCase(s) == [i \in 1..Len(s) |-> LowerChar(s[i])]

\* String.prototype.toUpperCase on one character
UpperChar(ch) ==
    CASE ch = "v" -> "V" [] ch = "g" -> "G" [] ch = "x" -> "X" [] ch = "b" -> "B"
      [] OTHER -> ch

UpperCaseChars == {"A", "B", "C", "D", "F", "G", "K", "N", "P", "S", "V", "X"}

\* encodeURIComponent on one character: unreserved characters pass, the
\* others become their percent-escape (upper-case hex digits).
EncodeChar(ch) ==
    CASE ch = "/" -> <<"%", "2", "F">>
      [] ch = " " -> <<"%", "2", "0">>
      [] OTHER -> <<ch>>

RECURSIVE encodeURIComponent(_)
encodeURIComponent(s) ==
    IF s = <<>> THEN <<>>
    ELSE EncodeChar(Head(s)) \o encodeURIComponent(Tail(s))

\* Array.prototype.join('/')
RECURSIVE join(_)
join(parts) ==
    IF parts = <<>> THEN <<>>
    ELSE IF Len(parts) = 1 THEN parts[1]
    ELSE parts[1] \o <<"/">> \o join(Tail(parts))

\* String.prototype.includes('/')
includesSlash(s) == \E i \in 1..Len(s) : s[i] = "/"

\* String.prototype.split('/')
RECURSIVE split(_)
split(s) ==
    IF ~includesSlash(s) THEN <<s>>
    ELSE LET i == CHOOSE j \in 1..Len(s) : s[j] = "/" /\ \A k \in 1..(j - 1) : s[k] # "/"
         IN  <<SubSeq(s, 1, i - 1)>> \o split(SubSeq(s, i + 1, Len(s)))

----------------------------------------------------------------------------
\* Pure helpers of KubernetesObjectApi

\* apiVersionPath: root of the API path up to the API version.
apiVersionPath(apiVersion) ==
    LET api == IF includesSlash(apiVersion) THEN <<"a", "p", "i", "s">>
               ELSE <<"a", "p", "i">>
    IN  join(<<basePath, api, apiVersion>>)

\* A variant of find that matches the plural name against the kind.
findByName(resources, kind) ==
    IF \E i \in 1..Len(resources) : resources[i].name = kind
    THEN resources[CHOOSE i \in 1..Len(resources) :
                       /\ resources[i].name = kind
                       /\ \A j \in 1..(i - 1) : resources[j].name # kind]
    ELSE NoResource

\* resources.find((r) => r.kind === kind): the first match, else undefined.
find(resources, kind) ==
    IF \E i \in 1..Len(resources) : resources[i].kind = kind
    THEN resources[CHOOSE i \in 1..Len(resources) :
                       /\ resources[i].kind = kind
                       /\ \A j \in 1..(i - 1) : resources[j].kind # kind]
    ELSE NoResource

groupVersion(apiVersion) ==
    LET v == split(apiVersion)
    IN  IF Len(v) = 1
        THEN [group |-> <<"c", "o", "r", "e">>, version |-> apiVersion]
        ELSE [group |-> v[1], version |-> v[2]]

KubernetesObjectType ==
    <<"K", "u", "b", "e", "r", "n", "e", "t", "e", "s", "O", "b", "j", "e", "c", "t">>

V1StatusType == <<"V", "1", "S", "t", "a", "t", "u", "s">>

V1APIResourceListType ==
    <<"V", "1", "A", "P", "I", "R", "e", "s", "o", "u", "r", "c", "e", "L", "i", "s", "t">>

\* getSerializationType: "<Version><Kind>", the version's first letter in
\* upper case; 'KubernetesObject' when either part is undefined.
getSerializationType(apiVersion, kind) ==
    IF apiVersion = Undefined \/ kind = Undefined THEN KubernetesObjectType
    ELSE LET version == groupVersion(apiVersion).version
         IN  (IF version = <<>> THEN <<>>
              ELSE <<UpperChar(Head(version))>> \o Tail(version)) \o kind

----------------------------------------------------------------------------
\* Bodies on the wire, decoded bodies, errors

\* The body argument of request's callback.  With json: true an empty
\* response body arrives as undefined (NoBody).
NoBody ==
    [present |-> FALSE, type |-> Undefined, apiVersion |-> Undefined,
     kind |-> Undefined, resources |-> <<>>, continue |-> Undefined]

Body(apiVersion, kind, resources) ==
    [present |-> TRUE, type |-> Undefined, apiVersion |-> apiVersion,
     kind |-> kind, resources |-> resources, continue |-> Undefined]

\* A list on the wire: metadata.continue is set when more items remain.
ListBody(apiVersion, kind, continue) ==
    [Body(apiVersion, kind, <<>>) EXCEPT !.continue = continue]

\* ObjectSerializer.deserialize(body, type): undefined passes through, any
\* other body is rebuilt as the named type.
deserialize(body, type) ==
    IF ~body.present THEN body ELSE [body EXCEPT !.type = type]

NoError == [name |-> "none", prefixed |-> FALSE, statusCode |-> 0, body |-> NoBody]

\* new Error(...) thrown by the code itself; name tells the throw sites apart.
Error(name) == [name |-> name, prefixed |-> FALSE, statusCode |-> 0, body |-> NoBody]

\* The error object the transport hands to request's callback.
TransportError == Error("transport")

\* new HttpError(response, body, response.statusCode)
HttpError(body, statusCode) ==
    [name |-> "HttpError", prefixed |-> FALSE, statusCode |-> statusCode, body |-> body]

\* A variant of Rethrow that throws the error as it caught it.
RethrowUntouched(e) == e

\* The catch block of resource: e.message gets the 'Failed to fetch resource
\* metadata' prefix, and the same error object is thrown again.
Rethrow(e) == [e EXCEPT !.prefixed = TRUE]

----------------------------------------------------------------------------
\* Specs (KubernetesObject headers) and the path builder

NoMetadata == [present |-> FALSE, namespace |-> Undefined, name |-> Undefined]

Metadata(namespace, name) == [present |-> TRUE, namespace |-> namespace, name |-> name]

KubernetesObject(apiVersion, kind, metadata) ==
    [apiVersion |-> apiVersion, kind |-> kind, metadata |-> metadata]

NoSpec == KubernetesObject(Undefined, Undefined, NoMetadata)

DefaultNs == <<"d", "e", "f", "a", "u", "l", "t">>

\* A variant of setDefaultNamespace that leaves the context aside.
setDefaultNamespaceFromNowhere(ns) == DefaultNs

\* setDefaultNamespace: the current context's namespace when it has one.
setDefaultNamespace(ns) ==
    IF ~Falsy(ns) THEN ns ELSE DefaultNs

\* A variant of specUriPathHead that leaves an absent apiVersion as it is.
specUriPathHeadNoDefault(spec) ==
    IF Falsy(spec.kind)
    THEN [error |-> Error("kindNotSet"), spec |-> spec]
    ELSE [error |-> NoError,
          spec  |-> [spec EXCEPT
                       !.metadata = IF ~@.present THEN Metadata(Undefined, Undefined) ELSE @]]

\* A variant of specUriPathHead that applies the defaults before it checks
\* the kind.
specUriPathHeadDefaultsFirst(spec) ==
    LET filled == [spec EXCEPT
                     !.apiVersion = IF Falsy(@) THEN V1 ELSE @,
                     !.metadata = IF ~@.present THEN Metadata(Undefined, Undefined) ELSE @]
    IN  IF Falsy(spec.kind)
        THEN [error |-> Error("kindNotSet"), spec |-> filled]
        ELSE [error |-> NoError, spec |-> filled]

\* specUriPath up to its await: the kind check and the two defaults.
specUriPathHead(spec) ==
    IF Falsy(spec.kind)
    THEN [error |-> Error("kindNotSet"), spec |-> spec]
    ELSE [error |-> NoError,
          spec  |-> [spec EXCEPT
                       !.apiVersion = IF Falsy(@) THEN V1 ELSE @,
                       !.metadata = IF ~@.present THEN Metadata(Undefined, Undefined) ELSE @]]

\* A variant of fillNamespace that also fills the namespace when listing.
fillNamespaceAlways(spec, action, resource, defaultNs) ==
    IF resource.namespaced /\ Falsy(spec.metadata.namespace)
    THEN [spec EXCEPT !.metadata.namespace = defaultNs]
    ELSE spec

\* The namespace default: if (resource.namespaced && !namespace && action !== 'list')
fillNamespace(spec, action, resource, defaultNs) ==
    IF resource.namespaced /\ Falsy(spec.metadata.namespace) /\ action # "list"
    THEN [spec EXCEPT !.metadata.namespace = defaultNs]
    ELSE spec

\* A variant of needsName that exempts create only.
needsNameUnlessCreate(action) == action # "create"

\* if (action !== 'create' && action !== 'list'): the name is part of the path
needsName(action) == action # "create" /\ action # "list"

\* A variant of pathParts that adds the namespace of a cluster-scoped kind too.
pathPartsForAnyScope(spec, resource) ==
    <<apiVersionPath(spec.apiVersion)>>
    \o (IF ~Falsy(spec.metadata.namespace)
        THEN <<<<"n", "a", "m", "e", "s", "p", "a", "c", "e", "s">>,
               encodeURIComponent(spec.metadata.namespace)>>
        ELSE <<>>)
    \o <<resource.name>>

\* The parts pushed before the name: root, 'namespaces' + namespace, plural.
pathParts(spec, resource) ==
    <<apiVersionPath(spec.apiVersion)>>
    \o (IF resource.namespaced /\ ~Falsy(spec.metadata.namespace)
        THEN <<<<"n", "a", "m", "e", "s", "p", "a", "c", "e", "s">>,
               encodeURIComponent(spec.metadata.namespace)>>
        ELSE <<>>)
    \o <<resource.name>>

\* A variant of joinParts that keeps the case.
joinPartsAsIs(parts) == join(parts)

\* parts.join('/').toLowerCase()
joinParts(parts) == toLowerCase(join(parts))

\* A variant of specUriPathTail without the check of what resource() returned.
specUriPathTailUnchecked(spec, action, resource, defaultNs) ==
    LET filled == fillNamespace(spec, action, resource, defaultNs)
        parts  == pathParts(filled, resource)
    IN  IF needsName(action)
        THEN IF Falsy(filled.metadata.name)
             THEN [error |-> Error("nameNotSet"), spec |-> filled, path |-> Undefined]
             ELSE [error |-> NoError, spec |-> filled,
                   path |-> joinParts(Append(parts,
                                encodeURIComponent(filled.metadata.name)))]
        ELSE [error |-> NoError, spec |-> filled, path |-> joinParts(parts)]

\* specUriPath after resource() has resolved with `resource`.
specUriPathTail(spec, action, resource, defaultNs) ==
    IF resource = NoResource
    THEN [error |-> Error("unrecognized"), spec |-> spec, path |-> Undefined]
    ELSE LET filled == fillNamespace(spec, action, resource, defaultNs)
             parts  == pathParts(filled, resource)
         IN  IF needsName(action)
             THEN IF Falsy(filled.metadata.name)
                  THEN [error |-> Error("nameNotSet"), spec |-> filled, path |-> Undefined]
                  ELSE [error |-> NoError, spec |-> filled,
                        path |-> joinParts(Append(parts,
                                     encodeURIComponent(filled.metadata.name)))]
             ELSE [error |-> NoError, spec |-> filled, path |-> joinParts(parts)]

----------------------------------------------------------------------------
\* Headers

\* Header names are the keys of a JavaScript object, compared exactly; the
\* defaults are written in lower case.
HeaderNames == {"accept", "content-type", "x-trace"}

\* The value of a key the object does not have.
Absent == "absent"

\* {}
NoHeaders == [h \in HeaderNames |-> Absent]

Json == "application/json"

\* KubernetesPatchStrategies.StrategicMergePatch
StrategicMergePatch == "application/strategic-merge-patch+json"

\* this._defaultHeaders of a client whose default headers were never set.
defaultHeaders == NoHeaders

\* Object.assign(target, source): the source's keys win.
assign(target, source) ==
    [h \in HeaderNames |-> IF source[h] # Absent THEN source[h] ELSE target[h]]

\* A variant of generateHeaders that applies the defaults last.
generateHeadersDefaultsLast(optionsHeaders, action) ==
    LET withAccept == [assign(defaultHeaders, optionsHeaders) EXCEPT !["accept"] = Json]
    IN  IF action = "PATCH"
        THEN [withAccept EXCEPT !["content-type"] = StrategicMergePatch]
        ELSE withAccept

generateHeaders(optionsHeaders, action) ==
    LET headers    == assign(NoHeaders, defaultHeaders)
        withAccept == [headers EXCEPT !["accept"] = Json]
        withType   == IF action = "PATCH"
                      THEN [withAccept EXCEPT !["content-type"] = StrategicMergePatch]
                      ELSE withAccept
    IN  assign(withType, optionsHeaders)

----------------------------------------------------------------------------
\* Calls

Callers == {"a", "b"}

Methods == KubernetesApiAction \cup {"specUriPath", "resource", "watch"}

\* The booleans of the optional arguments.
True == <<"true">>

False == <<"false">>

\* const localVarQueryParameters: any = {}
NoQuery == [k \in {} |-> Undefined]

\* localVarQueryParameters.key = value
setParam(qs, key, value) ==
    [k \in DOMAIN qs \cup {key} |-> IF k = key THEN value ELSE qs[k]]

\* ObjectSerializer.serialize(data, type) for the primitive types: the value
\* itself.
serialize(data, type) == data

\* The optional arguments of list and patch; undefined: left out.
NoArgs ==
    [pretty |-> Undefined, exact |-> Undefined, exportt |-> Undefined,
     fieldSelector |-> Undefined, labelSelector |-> Undefined, limit |-> Undefined,
     continueToken |-> Undefined, dryRun |-> Undefined, fieldManager |-> Undefined,
     force |-> Undefined]

\* A variant of listQuery that tests the arguments for truthiness.
listQueryOfTruthy(a) ==
    LET q1 == IF ~Falsy(a.pretty) THEN setParam(NoQuery, "pretty", serialize(a.pretty, "string"))
              ELSE NoQuery
        q2 == IF ~Falsy(a.exact) THEN setParam(q1, "exact", serialize(a.exact, "boolean"))
              ELSE q1
        q3 == IF ~Falsy(a.exportt) THEN setParam(q2, "export", serialize(a.exportt, "boolean"))
              ELSE q2
        q4 == IF ~Falsy(a.fieldSelector)
              THEN setParam(q3, "fieldSelector", serialize(a.fieldSelector, "string"))
              ELSE q3
        q5 == IF ~Falsy(a.labelSelector)
              THEN setParam(q4, "labelSelector", serialize(a.labelSelector, "string"))
              ELSE q4
        q6 == IF ~Falsy(a.limit) THEN setParam(q5, "limit", serialize(a.limit, "number"))
              ELSE q5
    IN  IF ~Falsy(a.continueToken)
        THEN setParam(q6, "continue", serialize(a.continueToken, "string"))
        ELSE q6

\* The query parameters of list: one per argument that is not undefined.
listQuery(a) ==
    LET q1 == IF a.pretty # Undefined
              THEN setParam(NoQuery, "pretty", serialize(a.pretty, "string"))
              ELSE NoQuery
        q2 == IF a.exact # Undefined THEN setParam(q1, "exact", serialize(a.exact, "boolean"))
              ELSE q1
        q3 == IF a.exportt # Undefined
              THEN setParam(q2, "export", serialize(a.exportt, "boolean"))
              ELSE q2
        q4 == IF a.fieldSelector # Undefined
              THEN setParam(q3, "fieldSelector", serialize(a.fieldSelector, "string"))
              ELSE q3
        q5 == IF a.labelSelector # Undefined
              THEN setParam(q4, "labelSelector", serialize(a.labelSelector, "string"))
              ELSE q4
        q6 == IF a.limit # Undefined THEN setParam(q5, "limit", serialize(a.limit, "number"))
              ELSE q5
    IN  IF a.continueToken # Undefined
        THEN setParam(q6, "continue", serialize(a.continueToken, "string"))
        ELSE q6

\* A variant of patchQuery that sends force only when it is true.
patchQueryForcing(a) ==
    LET q1 == IF a.pretty # Undefined
              THEN setParam(NoQuery, "pretty", serialize(a.pretty, "string"))
              ELSE NoQuery
        q2 == IF a.dryRun # Undefined THEN setParam(q1, "dryRun", serialize(a.dryRun, "string"))
              ELSE q1
        q3 == IF a.fieldManager # Undefined
              THEN setParam(q2, "fieldManager", serialize(a.fieldManager, "string"))
              ELSE q2
    IN  IF a.force = True THEN setParam(q3, "force", serialize(a.force, "boolean"))
        ELSE q3

\* The query parameters of patch: one per argument that is not undefined.
patchQuery(a) ==
    LET q1 == IF a.pretty # Undefined
              THEN setParam(NoQuery, "pretty", serialize(a.pretty, "string"))
              ELSE NoQuery
        q2 == IF a.dryRun # Undefined THEN setParam(q1, "dryRun", serialize(a.dryRun, "string"))
              ELSE q1
        q3 == IF a.fieldManager # Undefined
              THEN setParam(q2, "fieldManager", serialize(a.fieldManager, "string"))
              ELSE q2
    IN  IF a.force # Undefined THEN setParam(q3, "force", serialize(a.force, "boolean"))
        ELSE q3

\* The transport outcome a call last received (history, for stating claims).
\* `to` names the request it answered: "fetch" (metadata) or "request" (object).
NoReply == [to |-> "none", kind |-> "none", statusCode |-> 0, body |-> NoBody]

Idle ==
    [pc |-> "idle", method |-> "none", action |-> "none",
     input |-> NoSpec,          \* the spec as the caller passed it
     options |-> NoHeaders,     \* options.headers as the caller passed them
     headers |-> NoHeaders,     \* headers of the request sent last
     args |-> NoArgs,           \* the optional arguments as the caller passed them
     qs |-> NoQuery,            \* query parameters of the object request
     spec |-> NoSpec,           \* the caller's spec object, as mutated so far
     type |-> Undefined,        \* the type argument given to requestPromise
     verb |-> "none",           \* method of the object request
     resource |-> NoResource,   \* what resource() resolved with
     path |-> Undefined,        \* what specUriPath returned: the request's uri
     statusCode |-> 0, body |-> NoBody,   \* the fulfilled value
     error |-> NoError,         \* the rejection
     lookup |-> "none",         \* how the cache lookup of resource() went
     fetches |-> 0,             \* metadata fetches this call has sent
     requests |-> 0,            \* object requests this call has sent
     reply |-> NoReply,
     issuedAfter |-> FALSE,     \* history: resource() was called while another call's
                                \* fetch for the same apiVersion was in flight
     arrived |-> <<>>,          \* watch: the events the stream has produced
     read |-> 0,                \* watch: how many of them the session has handed to cb
     delivered |-> <<>>,        \* watch: the invocations of the caller's callback
     inCallback |-> FALSE,      \* watch: the caller's callback is running
     doneCalls |-> <<>>,        \* watch: the invocations of the done handler
     aborts |-> 0,              \* watch: calls of WatchResult.abort
     atAbort |-> 0,             \* watch: callback invocations begun at the first abort
     last |-> 0,                \* watch: callback invocations the transport may still make
     thrown |-> NoError]        \* watch: what the last abort call raised

Reject(rec, e) == [rec EXCEPT !.pc = "rejected", !.error = e]

\* The method and the type argument each operation gives to requestPromise.
verbOf(method) ==
    CASE method = "create" -> "POST" [] method = "delete" -> "DELETE"
      [] method = "patch" -> "PATCH" [] method = "replace" -> "PUT"
      [] OTHER -> "GET"

typeOf(method) == IF method = "delete" THEN V1StatusType ELSE Undefined

\* localVarQueryParameters of each operation; the optional arguments of
\* create, read, replace and delete are left out by every call made here.
queryOf(method, args) ==
    CASE method = "list" -> listQuery(args)
      [] method = "patch" -> patchQuery(args)
      [] OTHER -> NoQuery

\* The action each operation gives to generateHeaders: patch names 'PATCH',
\* the others leave the default 'GET'.
headerActionOf(method) == IF method = "patch" THEN "PATCH" ELSE "GET"

\* watch once specUriPath has returned: the type is named by the resource
\* argument, and the wrapped callback and done go to this.watcher.watch.
connect(rec) ==
    [rec EXCEPT !.pc = "connecting",
                !.type = getSerializationType(rec.input.apiVersion, rec.input.kind),
                !.verb = "GET", !.requests = @ + 1]

\* A variant of Resolved in which an operation sends its request although
\* specUriPath threw.
ResolvedRequestFirst(rec, resource, defaultNs) ==
    IF rec.method = "resource"
    THEN [rec EXCEPT !.pc = "fulfilled", !.resource = resource]
    ELSE LET tail == specUriPathTail(rec.spec, rec.action, resource, defaultNs)
             rec1 == [rec EXCEPT !.resource = resource, !.spec = tail.spec]
         IN  IF rec.method = "specUriPath"
             THEN IF tail.error # NoError THEN Reject(rec1, tail.error)
                  ELSE [rec1 EXCEPT !.pc = "fulfilled", !.path = tail.path]
             ELSE IF rec.method = "watch"
             THEN IF tail.error # NoError THEN Reject(rec1, tail.error)
                  ELSE connect([rec1 EXCEPT !.path = tail.path])
             ELSE IF tail.error # NoError
             THEN [Reject(rec1, tail.error) EXCEPT !.requests = @ + 1]
             ELSE [rec1 EXCEPT !.pc = "requesting", !.path = tail.path,
                               !.verb = verbOf(rec.method), !.type = typeOf(rec.method),
                               !.headers = generateHeaders(rec.options,
                                                           headerActionOf(rec.method)),
                               !.qs = queryOf(rec.method, rec.args),
                               !.requests = @ + 1]

\* The call once resource() has resolved with `resource`: the rest of
\* specUriPath and, for an operation, the sending of its request.
Resolved(rec, resource, defaultNs) ==
    IF rec.method = "resource"
    THEN [rec EXCEPT !.pc = "fulfilled", !.resource = resource]
    ELSE LET tail == specUriPathTail(rec.spec, rec.action, resource, defaultNs)
             rec1 == [rec EXCEPT !.resource = resource, !.spec = tail.spec]
         IN  IF tail.error # NoError THEN Reject(rec1, tail.error)
             ELSE IF rec.method = "specUriPath"
             THEN [rec1 EXCEPT !.pc = "fulfilled", !.path = tail.path]
             ELSE IF rec.method = "watch"
             THEN connect([rec1 EXCEPT !.path = tail.path])
             ELSE [rec1 EXCEPT !.pc = "requesting", !.path = tail.path,
                               !.verb = verbOf(rec.method), !.type = typeOf(rec.method),
                               !.headers = generateHeaders(rec.options,
                                                           headerActionOf(rec.method)),
                               !.qs = queryOf(rec.method, rec.args),
                               !.requests = @ + 1]

\* this.apiVersionResourceCache[apiVersion]: undefined for a key never stored.
entryOf(cache, apiVersion) ==
    IF apiVersion \in DOMAIN cache THEN cache[apiVersion] ELSE NoEntry

\* A variant of resource that takes a cached list without the kind as the
\* answer.
resourceRemembering(rec, cache, defaultNs) ==
    LET apiVersion == rec.spec.apiVersion
        kind == rec.spec.kind
    IN  IF apiVersion = Undefined THEN Reject(rec, Error("resourceApiVersion"))
        ELSE IF kind = Undefined THEN Reject(rec, Error("resourceKind"))
        ELSE IF entryOf(cache, apiVersion).present
        THEN Resolved([rec EXCEPT !.lookup = "hit"],
                      find(entryOf(cache, apiVersion).resources, kind), defaultNs)
        ELSE [rec EXCEPT !.pc = "fetching", !.fetches = @ + 1,
                         !.headers = generateHeaders(NoHeaders, "GET"),
                         !.lookup = "absent"]

\* A variant of resource that never consults the cache.
resourceUncached(rec, cache, defaultNs) ==
    IF rec.spec.apiVersion = Undefined THEN Reject(rec, Error("resourceApiVersion"))
    ELSE IF rec.spec.kind = Undefined THEN Reject(rec, Error("resourceKind"))
    ELSE [rec EXCEPT !.pc = "fetching", !.fetches = @ + 1,
                     !.headers = generateHeaders(NoHeaders, "GET"),
                     !.lookup = IF entryOf(cache, rec.spec.apiVersion).present
                                THEN "missing" ELSE "absent"]

\* resource() up to its await: the cache lookup; a miss sends the fetch.
resource(rec, cache, defaultNs) ==
    LET apiVersion == rec.spec.apiVersion
        kind == rec.spec.kind
    IN  IF apiVersion = Undefined THEN Reject(rec, Error("resourceApiVersion"))
        ELSE IF kind = Undefined THEN Reject(rec, Error("resourceKind"))
        ELSE IF entryOf(cache, apiVersion).present
                /\ find(entryOf(cache, apiVersion).resources, kind) # NoResource
        THEN Resolved([rec EXCEPT !.lookup = "hit"],
                      find(entryOf(cache, apiVersion).resources, kind), defaultNs)
        ELSE [rec EXCEPT !.pc = "fetching", !.fetches = @ + 1,
                         !.headers = generateHeaders(NoHeaders, "GET"),
                         !.lookup = IF entryOf(cache, apiVersion).present THEN "missing"
                                    ELSE "absent"]

\* specUriPath as called by an operation (or directly).
specUriPath(rec, cache, defaultNs) ==
    LET head == specUriPathHead(rec.spec)
    IN  IF head.error # NoError THEN Reject([rec EXCEPT !.spec = head.spec], head.error)
        ELSE resource([rec EXCEPT !.spec = head.spec], cache, defaultNs)

\* The checks an operation makes before it calls specUriPath.
preCheck(method, spec) ==
    CASE method = "read" ->
           IF spec.kind = Undefined THEN Error("readKind")
           ELSE IF Falsy(spec.apiVersion) THEN Error("readApiVersion")
           ELSE NoError
      [] method = "list" ->
           IF spec.apiVersion = Undefined THEN Error("listApiVersion")
           ELSE IF spec.kind = Undefined THEN Error("listKind")
           ELSE NoError
      [] OTHER -> NoError

\* An operation from its call to its first await that leaves the event loop.
beginCall(method, action, spec, options, args, cache, defaultNs) ==
    LET rec == [Idle EXCEPT !.method = method, !.action = action,
                            !.input = spec, !.spec = spec, !.options = options,
                            !.args = args]
    IN  IF method = "resource" THEN resource(rec, cache, defaultNs)
        ELSE IF preCheck(method, spec) # NoError THEN Reject(rec, preCheck(method, spec))
        ELSE specUriPath(rec, cache, defaultNs)

\* The same with the optional arguments left out.
beginWith(method, action, spec, options, cache, defaultNs) ==
    beginCall(method, action, spec, options, NoArgs, cache, defaultNs)

\* A variant of beginWatch that reports the missing watcher to done.
beginWatchErrorToDone(apiVersion, kind, namespace, hasWatcher, cache, defaultNs) ==
    LET spec == KubernetesObject(apiVersion, kind, Metadata(namespace, Undefined))
        rec  == [Idle EXCEPT !.method = "watch", !.action = "list",
                             !.input = spec, !.spec = spec]
    IN  IF ~hasWatcher
        THEN [rec EXCEPT !.pc = "errored", !.doneCalls = <<Error("watcherNotInitialized")>>]
        ELSE specUriPath(rec, cache, defaultNs)

\* watch from its call to its first await that leaves the event loop: the
\* watcher check, then specUriPath for 'list' on a spec built from the
\* resource argument.
beginWatch(apiVersion, kind, namespace, hasWatcher, cache, defaultNs) ==
    LET spec == KubernetesObject(apiVersion, kind, Metadata(namespace, Undefined))
        rec  == [Idle EXCEPT !.method = "watch", !.action = "list",
                             !.input = spec, !.spec = spec]
    IN  IF ~hasWatcher THEN Reject(rec, Error("watcherNotInitialized"))
        ELSE specUriPath(rec, cache, defaultNs)

\* The same with the options argument left to its default, { headers: {} }.
begin(method, action, spec, cache, defaultNs) ==
    beginWith(method, action, spec, NoHeaders, cache, defaultNs)

----------------------------------------------------------------------------
\* Inputs and transport outcomes

ApiVersions == {Undefined, EmptyString, V1, GroupV1}

Kinds == {Undefined, EmptyString, Pod, Node}

Namespaces == {Undefined, <<"N", " ">>}

Names == {Undefined, EmptyString, <<"F", "/">>}

Metadatas == {NoMetadata} \cup {Metadata(ns, n) : ns \in Namespaces, n \in Names}

\* Namespaces of the kubeconfig's current context (undefined: none set).
ContextNamespaces == {Undefined, <<"C", "x">>}

\* The keys resource() is called with once the defaults are applied.
GroupVersions == {V1, GroupV1}

\* Resource lists a discovery response may carry.
ResourceLists == {<<PodNs>>, <<NodeCl>>, <<NodeCl, PodCl>>}

\* Bodies of the 2xx answers to a metadata fetch: the discovery wire contract
\* is a V1APIResourceList for the group-version.
DiscoveryBodies == {Body(V1, <<"L">>, list) : list \in ResourceLists}

\* Bodies of the non-2xx answers to a metadata fetch: none, or a Status.
FailureBodies == {NoBody, Body(V1, Status, <<>>)}

ObjectBodies ==
    {NoBody, Body(Undefined, Undefined, <<>>), Body(V1, Status, <<>>),
     Body(GroupV1, Node, <<>>)}

StatusCodes == {199, 200, 299, 300}

\* response.statusCode && response.statusCode >= 200 && response.statusCode <= 299
isSuccess(statusCode) == statusCode # 0 /\ statusCode >= 200 /\ statusCode <= 299

Response(to, statusCode, body) ==
    [to |-> to, kind |-> "response", statusCode |-> statusCode, body |-> body]

ErrorReply(to) == [to |-> to, kind |-> "error", statusCode |-> 0, body |-> NoBody]

----------------------------------------------------------------------------
\* The state machine

Init ==
    /\ contextNamespace \in ContextNamespaces
    /\ defaultNamespace = setDefaultNamespace(contextNamespace)
    /\ apiVersionResourceCache = [gv \in GroupVersions |-> NoEntry]
    /\ call = [c \in Callers |-> Idle]
    /\ fetched = {}
    /\ watcher = TRUE

\* A caller starts create, read, replace, patch or delete on a spec.
CallOperation(c) ==
    /\ call[c].pc = "idle"
    /\ \E method \in KubernetesApiAction \ {"list"}, apiVersion \in ApiVersions,
          kind \in Kinds, metadata \in Metadatas :
          call' = [call EXCEPT ![c] =
                     begin(method, method, KubernetesObject(apiVersion, kind, metadata),
                           apiVersionResourceCache, defaultNamespace)]
    /\ UNCHANGED <<contextNamespace, defaultNamespace, apiVersionResourceCache, fetched, watcher>>

\* A caller starts list(apiVersion, kind, namespace): the spec is built from
\* the arguments and has no name.
CallList(c) ==
    /\ call[c].pc = "idle"
    /\ \E apiVersion \in ApiVersions, kind \in Kinds, namespace \in Namespaces :
          call' = [call EXCEPT ![c] =
                     begin("list", "list",
                           KubernetesObject(apiVersion, kind, Metadata(namespace, Undefined)),
                           apiVersionResourceCache, defaultNamespace)]
    /\ UNCHANGED <<contextNamespace, defaultNamespace, apiVersionResourceCache, fetched, watcher>>

\* specUriPath called on its own, with any spec and action.
CallSpecUriPath(c) ==
    /\ call[c].pc = "idle"
    /\ \E action \in KubernetesApiAction, apiVersion \in ApiVersions,
          kind \in Kinds, metadata \in Metadatas :
          call' = [call EXCEPT ![c] =
                     begin("specUriPath", action,
                           KubernetesObject(apiVersion, kind, metadata),
                           apiVersionResourceCache, defaultNamespace)]
    /\ UNCHANGED <<contextNamespace, defaultNamespace, apiVersionResourceCache, fetched, watcher>>

\* Header values a caller passes in options.headers.
OptionHeaders ==
    [HeaderNames -> {Absent, "application/yaml"}]
    \cup {[NoHeaders EXCEPT !["content-type"] = "application/merge-patch+json"],
          [NoHeaders EXCEPT !["accept"] = Json]}

\* Specs of the calls made with option headers.
HeaderSpecs ==
    {KubernetesObject(apiVersion, kind, Metadata(Undefined, name)) :
        apiVersion \in {Undefined, GroupV1}, kind \in {Pod, Node},
        name \in {Undefined, <<"F", "/">>}}

\* A caller starts an operation and passes options.headers.
CallWithOptions(c) ==
    /\ call[c].pc = "idle"
    /\ \E method \in KubernetesApiAction, spec \in HeaderSpecs, options \in OptionHeaders :
          call' = [call EXCEPT ![c] =
                     beginWith(method, method,
                               IF method = "list"
                               THEN [spec EXCEPT !.metadata.name = Undefined] ELSE spec,
                               options, apiVersionResourceCache, defaultNamespace)]
    /\ UNCHANGED <<contextNamespace, defaultNamespace, apiVersionResourceCache, fetched, watcher>>

\* resource(apiVersion, kind) called on its own.
CallResource(c) ==
    /\ call[c].pc = "idle"
    /\ \E apiVersion \in {Undefined} \cup GroupVersions, kind \in {Undefined, Pod, Node} :
          call' = [call EXCEPT ![c] =
                     [begin("resource", "none",
                            KubernetesObject(apiVersion, kind, NoMetadata),
                            apiVersionResourceCache, defaultNamespace)
                        EXCEPT !.issuedAfter =
                                  \E d \in Callers \ {c} :
                                      /\ call[d].pc = "fetching"
                                      /\ call[d].spec.apiVersion = apiVersion]]
    /\ UNCHANGED <<contextNamespace, defaultNamespace, apiVersionResourceCache, fetched, watcher>>

\* A variant of FetchError that drops the entry of the groupVersion whose
\* fetch failed.
FetchErrorClearing(c) ==
    /\ call[c].pc = "fetching"
    /\ call' = [call EXCEPT ![c] =
                  Reject([@ EXCEPT !.reply = ErrorReply("fetch")], Rethrow(TransportError))]
    /\ apiVersionResourceCache' =
          [apiVersionResourceCache EXCEPT ![call[c].spec.apiVersion] = NoEntry]
    /\ UNCHANGED <<contextNamespace, defaultNamespace, fetched, watcher>>

\* A variant of FetchError that sends the metadata fetch again.
FetchErrorRetry(c) ==
    /\ call[c].pc = "fetching"
    /\ call' = [call EXCEPT ![c] =
                  [@ EXCEPT !.reply = ErrorReply("fetch"), !.fetches = @ + 1]]
    /\ UNCHANGED <<contextNamespace, defaultNamespace, apiVersionResourceCache, fetched, watcher>>

\* The callback of the metadata fetch runs with a transport error: the catch
\* block of resource rethrows it.
FetchError(c) ==
    /\ call[c].pc = "fetching"
    /\ call' = [call EXCEPT ![c] =
                  Reject([@ EXCEPT !.reply = ErrorReply("fetch")], Rethrow(TransportError))]
    /\ UNCHANGED <<contextNamespace, defaultNamespace, apiVersionResourceCache, fetched, watcher>>

\* A variant of stored that keeps only the first descriptor of the response.
storedFirstOnly(body) == Entry(SubSeq(body.resources, 1, 1))

\* What a 2xx discovery response leaves in the cache slot: the decoded body.
stored(body) == Entry(body.resources)

\* A variant of FetchResponse that searches the entry as it was before the
\* response was stored.
FetchResponseSearchingOld(c, history) ==
    /\ call[c].pc = "fetching"
    /\ \E statusCode \in StatusCodes :
       \E wire \in IF isSuccess(statusCode) THEN DiscoveryBodies ELSE FailureBodies :
          LET rec  == [call[c] EXCEPT !.reply = Response("fetch", statusCode, wire)]
              body == deserialize(wire, V1APIResourceListType)
              gv   == rec.spec.apiVersion
              old  == entryOf(apiVersionResourceCache, gv)
          IN  IF ~isSuccess(statusCode)
              THEN /\ call' = [call EXCEPT ![c] =
                                 Reject(rec, Rethrow(HttpError(body, statusCode)))]
                   /\ UNCHANGED <<apiVersionResourceCache, fetched>>
              ELSE /\ apiVersionResourceCache' =
                          [apiVersionResourceCache EXCEPT ![gv] = stored(body)]
                   /\ fetched' =
                          IF history
                          THEN fetched \cup {<<gv, body.resources[i].kind>> :
                                               i \in 1..Len(body.resources)}
                          ELSE fetched
                   /\ call' = [call EXCEPT ![c] =
                                 Resolved(rec, find(old.resources, rec.spec.kind),
                                          defaultNamespace)]
    /\ UNCHANGED <<contextNamespace, defaultNamespace, watcher>>

\* A variant of FetchResponse that keeps the entry the groupVersion already
\* has.
FetchResponseKeepingFirst(c, history) ==
    /\ call[c].pc = "fetching"
    /\ \E statusCode \in StatusCodes :
       \E wire \in IF isSuccess(statusCode) THEN DiscoveryBodies ELSE FailureBodies :
          LET rec  == [call[c] EXCEPT !.reply = Response("fetch", statusCode, wire)]
              body == deserialize(wire, V1APIResourceListType)
              gv   == rec.spec.apiVersion
              old  == entryOf(apiVersionResourceCache, gv)
              new  == IF old.present THEN old ELSE stored(body)
          IN  IF ~isSuccess(statusCode)
              THEN /\ call' = [call EXCEPT ![c] =
                                 Reject(rec, Rethrow(HttpError(body, statusCode)))]
                   /\ UNCHANGED <<apiVersionResourceCache, fetched>>
              ELSE /\ apiVersionResourceCache' =
                          [apiVersionResourceCache EXCEPT ![gv] = new]
                   /\ fetched' =
                          IF history
                          THEN fetched \cup {<<gv, body.resources[i].kind>> :
                                               i \in 1..Len(body.resources)}
                          ELSE fetched
                   /\ call' = [call EXCEPT ![c] =
                                 Resolved(rec, find(new.resources, rec.spec.kind),
                                          defaultNamespace)]
    /\ UNCHANGED <<contextNamespace, defaultNamespace, watcher>>

\* A variant of FetchResponse that adds the fresh descriptors to the cached
\* ones instead of replacing them.
FetchResponseMerging(c, history) ==
    /\ call[c].pc = "fetching"
    /\ \E statusCode \in StatusCodes :
       \E wire \in IF isSuccess(statusCode) THEN DiscoveryBodies ELSE FailureBodies :
          LET rec  == [call[c] EXCEPT !.reply = Response("fetch", statusCode, wire)]
              body == deserialize(wire, V1APIResourceListType)
              gv   == rec.spec.apiVersion
              old  == entryOf(apiVersionResourceCache, gv)
              new  == Entry(body.resources \o old.resources)
          IN  IF ~isSuccess(statusCode)
              THEN /\ call' = [call EXCEPT ![c] =
                                 Reject(rec, Rethrow(HttpError(body, statusCode)))]
                   /\ UNCHANGED <<apiVersionResourceCache, fetched>>
              ELSE /\ apiVersionResourceCache' =
                          [apiVersionResourceCache EXCEPT ![gv] = new]
                   /\ fetched' =
                          IF history
                          THEN fetched \cup {<<gv, body.resources[i].kind>> :
                                               i \in 1..Len(body.resources)}
                          ELSE fetched
                   /\ call' = [call EXCEPT ![c] =
                                 Resolved(rec, find(new.resources, rec.spec.kind),
                                          defaultNamespace)]
    /\ UNCHANGED <<contextNamespace, defaultNamespace, watcher>>

\* The callback of the metadata fetch runs with a response: requestPromise
\* settles, and on success resource stores the body and searches it.
\* `history` says whether the specification keeps the history variable.
FetchResponse(c, history) ==
    /\ call[c].pc = "fetching"
    /\ \E statusCode \in StatusCodes :
       \E wire \in IF isSuccess(statusCode) THEN DiscoveryBodies ELSE FailureBodies :
          LET rec  == [call[c] EXCEPT !.reply = Response("fetch", statusCode, wire)]
              body == deserialize(wire, V1APIResourceListType)
              gv   == rec.spec.apiVersion
          IN  IF ~isSuccess(statusCode)
              THEN /\ call' = [call EXCEPT ![c] =
                                 Reject(rec, Rethrow(HttpError(body, statusCode)))]
                   /\ UNCHANGED <<apiVersionResourceCache, fetched>>
              ELSE /\ apiVersionResourceCache' =
                          [apiVersionResourceCache EXCEPT ![gv] = stored(body)]
                   /\ fetched' =
                          IF history
                          THEN fetched \cup {<<gv, body.resources[i].kind>> :
                                               i \in 1..Len(body.resources)}
                          ELSE fetched
                   /\ call' = [call EXCEPT ![c] =
                                 Resolved(rec, find(stored(body).resources, rec.spec.kind),
                                          defaultNamespace)]
    /\ UNCHANGED <<contextNamespace, defaultNamespace, watcher>>

\* The callback of the object request runs with a transport error.
RequestError(c) ==
    /\ call[c].pc = "requesting"
    /\ call' = [call EXCEPT ![c] = Reject([@ EXCEPT !.reply = ErrorReply("request")], TransportError)]
    /\ UNCHANGED <<contextNamespace, defaultNamespace, apiVersionResourceCache, fetched, watcher>>

\* A variant of settle that derives the type from the spec of the request.
settleAsRequested(rec, statusCode, wire) ==
    LET rec1 == [rec EXCEPT !.reply = Response("request", statusCode, wire)]
    IN  IF rec.type = Undefined /\ ~wire.present
        THEN [rec1 EXCEPT !.pc = "hung"]
        ELSE LET type == IF rec.type = Undefined
                         THEN getSerializationType(rec.spec.apiVersion, rec.spec.kind)
                         ELSE rec.type
                 body == deserialize(wire, type)
             IN  IF isSuccess(statusCode)
                 THEN [rec1 EXCEPT !.pc = "fulfilled", !.statusCode = statusCode,
                                   !.body = body]
                 ELSE Reject(rec1, HttpError(body, statusCode))

\* The callback of requestPromise on a response, for the object request.
\* Without a type argument it reads body.apiVersion: on an undefined body
\* that throws inside the async callback, and neither resolve nor reject is
\* ever called.
settle(rec, statusCode, wire) ==
    LET rec1 == [rec EXCEPT !.reply = Response("request", statusCode, wire)]
    IN  IF rec.type = Undefined /\ ~wire.present
        THEN [rec1 EXCEPT !.pc = "hung"]
        ELSE LET type == IF rec.type = Undefined
                         THEN getSerializationType(wire.apiVersion, wire.kind)
                         ELSE rec.type
                 body == deserialize(wire, type)
             IN  IF isSuccess(statusCode)
                 THEN [rec1 EXCEPT !.pc = "fulfilled", !.statusCode = statusCode,
                                   !.body = body]
                 ELSE Reject(rec1, HttpError(body, statusCode))

\* requestPromise's callback runs with a response whose body is one of
\* `bodies`.
Respond(c, bodies) ==
    /\ call[c].pc = "requesting"
    /\ \E statusCode \in StatusCodes, wire \in bodies :
          call' = [call EXCEPT ![c] = settle(call[c], statusCode, wire)]
    /\ UNCHANGED <<contextNamespace, defaultNamespace, apiVersionResourceCache, fetched, watcher>>

\* The answer to an object request.
RequestResponse(c) == Respond(c, ObjectBodies)

\* The caller takes the settled promise's outcome (or leaves its ended watch
\* session behind) and is free to call again.
Return(c) ==
    /\ call[c].pc \in {"fulfilled", "rejected", "closed", "errored"}
    /\ ~call[c].inCallback
    /\ call' = [call EXCEPT ![c] = Idle]
    /\ UNCHANGED <<contextNamespace, defaultNamespace, apiVersionResourceCache, fetched, watcher>>

----------------------------------------------------------------------------
\* Watch

\* enum KubernetesEventType
KubernetesEventType == {"ADDED", "MODIFIED", "DELETED", "BOOKMARK", "ERROR"}

\* Events on the wire: {type, object}.  An ERROR event carries a Status, the
\* others an object of the watched kind.  `decodable` says whether
\* ObjectSerializer.deserialize accepts the object.
WatchEvent(type, decodable) ==
    [type |-> type,
     object |-> IF type = "ERROR" THEN Body(V1, Status, <<>>) ELSE Body(V1, Pod, <<>>),
     decodable |-> decodable]

WatchEvents ==
    {WatchEvent(type, TRUE) : type \in KubernetesEventType}
    \cup {WatchEvent("MODIFIED", FALSE)}

\* No invocation of the caller's callback.
NoInvocation == [phase |-> "none", object |-> NoBody, watchType |-> "none"]

\* A variant of cb that catches a failed decoding and drops the event.
cbSwallowing(type, event) ==
    IF ~event.decodable
    THEN [threw |-> FALSE, invocation |-> NoInvocation]
    ELSE [threw |-> FALSE,
          invocation |-> [phase |-> event.type, object |-> deserialize(event.object, type),
                          watchType |-> event.type]]

\* A variant of cb that keeps bookmarks to itself.
cbWithoutBookmarks(type, event) ==
    IF ~event.decodable
    THEN [threw |-> TRUE, invocation |-> NoInvocation]
    ELSE IF event.type = "BOOKMARK"
    THEN [threw |-> FALSE, invocation |-> NoInvocation]
    ELSE [threw |-> FALSE,
          invocation |-> [phase |-> event.type, object |-> deserialize(event.object, type),
                          watchType |-> event.type]]

\* The callback watch hands to the watcher: it decodes the object as `type`
\* (a failure leaves cb as an exception, before the caller's callback) and
\* invokes the caller's callback with the phase, the decoded object and the
\* watch object around it.
cb(type, event) ==
    IF ~event.decodable
    THEN [threw |-> TRUE, invocation |-> NoInvocation]
    ELSE [threw |-> FALSE,
          invocation |-> [phase |-> event.type, object |-> deserialize(event.object, type),
                          watchType |-> event.type]]

\* The events a session may produce.
MaxEvents == 3

\* The calls of abort a caller makes on one WatchResult.
MaxAborts == 2

\* res.abort() of the watcher's RequestResult: the connection is terminated;
\* one delivery may still be in flight.  On an ended session it does nothing.
resAbort(rec) ==
    IF rec.pc \in {"connecting", "streaming"}
    THEN [rec EXCEPT !.pc = "closing", !.last = 1]
    ELSE rec

\* A variant of abort that refuses a second call.
abortOnce(rec) ==
    IF rec.aborts > 0 THEN [rec EXCEPT !.thrown = Error("aborted")]
    ELSE resAbort(rec)

\* A variant of abort that does not reach the watcher's request.
abortNowhere(rec) == rec

\* WatchResult.abort: () => res.abort()
abort(rec) == resAbort(rec)

\* Inputs of watch.
WatchApiVersions == {V1}

WatchKinds == {Undefined, Pod}

WatchNamespaces == {Undefined}

\* A caller starts watch({resource, callback, done}).
CallWatch(c) ==
    /\ call[c].pc = "idle"
    /\ \E apiVersion \in WatchApiVersions, kind \in WatchKinds,
          namespace \in WatchNamespaces :
          call' = [call EXCEPT ![c] =
                     beginWatch(apiVersion, kind, namespace, watcher,
                                apiVersionResourceCache, defaultNamespace)]
    /\ UNCHANGED <<contextNamespace, defaultNamespace, apiVersionResourceCache, fetched, watcher>>

\* Connecting -> Streaming.
Connected(c) ==
    /\ call[c].pc = "connecting"
    /\ call' = [call EXCEPT ![c].pc = "streaming"]
    /\ UNCHANGED <<contextNamespace, defaultNamespace, apiVersionResourceCache, fetched, watcher>>

\* The stream produces its next event.
Arrive(c) ==
    /\ call[c].pc = "streaming"
    /\ Len(call[c].arrived) < MaxEvents
    /\ \E event \in WatchEvents :
          call' = [call EXCEPT ![c].arrived = Append(@, event)]
    /\ UNCHANGED <<contextNamespace, defaultNamespace, apiVersionResourceCache, fetched, watcher>>

\* The session hands its next event to cb.  A throw of cb is a decode
\* failure: the session is Errored and done gets the error.  After abort one
\* delivery may still be made.
Deliver(c) ==
    LET rec   == call[c]
        event == rec.arrived[rec.read + 1]
        out   == cb(rec.type, event)
    IN  /\ rec.method = "watch"
        /\ rec.pc = "streaming" \/ (rec.pc = "closing" /\ rec.last > 0)
        /\ ~rec.inCallback
        /\ rec.read < Len(rec.arrived)
        /\ rec.pc = "closing" => ~out.threw
        /\ call' = [call EXCEPT ![c] =
                      IF out.threw
                      THEN [rec EXCEPT !.pc = "errored", !.read = @ + 1,
                                       !.doneCalls = Append(@, Error("decode"))]
                      ELSE IF out.invocation = NoInvocation
                      THEN [rec EXCEPT !.read = @ + 1]
                      ELSE [rec EXCEPT !.delivered = Append(@, out.invocation),
                                       !.read = @ + 1,
                                       !.inCallback = TRUE,
                                       !.last = IF rec.pc = "closing" THEN 0 ELSE @]]
        /\ UNCHANGED <<contextNamespace, defaultNamespace, apiVersionResourceCache, fetched, watcher>>

\* The caller's callback returns.
CallbackReturn(c) ==
    /\ call[c].inCallback
    /\ call' = [call EXCEPT ![c].inCallback = FALSE]
    /\ UNCHANGED <<contextNamespace, defaultNamespace, apiVersionResourceCache, fetched, watcher>>

\* The caller invokes abort on the WatchResult, from the callback or from
\* outside it, in any state of the session.
Abort(c) ==
    /\ call[c].method = "watch"
    /\ call[c].pc \in {"connecting", "streaming", "closing", "closed", "errored"}
    /\ call[c].aborts < MaxAborts
    /\ call' = [call EXCEPT ![c] =
                  [abort([@ EXCEPT !.thrown = NoError])
                     EXCEPT !.aborts = @ + 1,
                            !.atAbort = IF call[c].aborts = 0
                                        THEN Len(call[c].delivered) ELSE @]]
    /\ UNCHANGED <<contextNamespace, defaultNamespace, apiVersionResourceCache, fetched, watcher>>

\* The terminated connection is gone: Closed.
Close(c) ==
    /\ call[c].pc = "closing"
    /\ call' = [call EXCEPT ![c].pc = "closed", ![c].last = 0]
    /\ UNCHANGED <<contextNamespace, defaultNamespace, apiVersionResourceCache, fetched, watcher>>

\* Errors of the stream itself: the transport, or a line that is no event.
StreamErrors == {TransportError, Error("streamDecode")}

\* The stream fails: Errored, and done gets the error.
StreamFails(c) ==
    /\ call[c].pc \in {"connecting", "streaming"}
    /\ ~call[c].inCallback
    /\ \E e \in StreamErrors :
          call' = [call EXCEPT ![c].pc = "errored", ![c].doneCalls = Append(@, e)]
    /\ UNCHANGED <<contextNamespace, defaultNamespace, apiVersionResourceCache, fetched, watcher>>

\* Watch sessions of one caller; the client may lack its watcher.
WatchNext ==
    \E c \in {"a"} :
        \/ CallWatch(c)
        \/ FetchError(c)
        \/ FetchResponse(c, FALSE)
        \/ Connected(c)
        \/ Arrive(c)
        \/ Deliver(c)
        \/ CallbackReturn(c)
        \/ Abort(c)
        \/ Close(c)
        \/ StreamFails(c)
        \/ Return(c)

\* makeApiClient sets the watcher; a client constructed directly has none.
WatchInit ==
    /\ contextNamespace = Undefined
    /\ defaultNamespace = DefaultNs
    /\ apiVersionResourceCache = [gv \in GroupVersions |-> NoEntry]
    /\ call = [c \in Callers |-> Idle]
    /\ fetched = {}
    /\ watcher \in BOOLEAN

WatchSpec == WatchInit /\ [][WatchNext]_vars

----------------------------------------------------------------------------
\* One caller at a time, every operation, every input.
Next ==
    \E c \in {"a"} :
        \/ CallOperation(c)
        \/ CallList(c)
        \/ CallSpecUriPath(c)
        \/ CallResource(c)
        \/ FetchError(c)
        \/ FetchResponse(c, FALSE)
        \/ RequestError(c)
        \/ RequestResponse(c)
        \/ Return(c)

Spec == Init /\ [][Next]_vars

\* Concurrent resolves: every caller calls resource() while the others have
\* fetches in flight, and the fetched pairs are recorded.
ResolveNext ==
    \E c \in Callers :
        \/ CallResource(c)
        \/ FetchError(c)
        \/ FetchResponse(c, TRUE)
        \/ Return(c)

\* Operations called with option headers, one caller at a time.
HeaderNext ==
    \E c \in {"a"} :
        \/ CallWithOptions(c)
        \/ FetchError(c)
        \/ FetchResponse(c, FALSE)
        \/ RequestError(c)
        \/ RequestResponse(c)
        \/ Return(c)

\* The client as makeApiClient leaves it for a context without a namespace.
HeaderInit == Init /\ defaultNamespace = DefaultNs

HeaderSpec == HeaderInit /\ [][HeaderNext]_vars

\* Inputs of the calls made with optional arguments.
ContinueTokens == {Undefined, EmptyString, <<"T", "1">>}

Selectors == {Undefined, <<"L">>}

FieldManagers == {Undefined, <<"M">>}

Forces == {Undefined, True, False}

\* The Content-Type values of a patch: JSON patch, merge patch, strategic
\* merge patch and server-side apply.
PatchContentTypes ==
    {"application/json-patch+json", "application/merge-patch+json",
     StrategicMergePatch, "application/apply-patch+yaml"}

PodList == <<"P", "o", "d", "L", "i", "s", "t">>

\* Answers to a list or patch request: a page with more to come, a last
\* page, a Status, nothing.
PageBodies ==
    {NoBody, Body(V1, Status, <<>>), ListBody(V1, PodList, Undefined),
     ListBody(V1, PodList, <<"T", "2">>)}

\* A caller starts list(apiVersion, kind, namespace, ..., labelSelector,
\* limit, continueToken).
CallListWith(c) ==
    /\ call[c].pc = "idle"
    /\ \E apiVersion \in GroupVersions, kind \in {Pod, Node}, namespace \in Namespaces,
          labelSelector \in Selectors, continueToken \in ContinueTokens :
          call' = [call EXCEPT ![c] =
                     beginCall("list", "list",
                               KubernetesObject(apiVersion, kind,
                                                Metadata(namespace, Undefined)),
                               NoHeaders,
                               [NoArgs EXCEPT !.labelSelector = labelSelector,
                                              !.continueToken = continueToken],
                               apiVersionResourceCache, defaultNamespace)]
    /\ UNCHANGED <<contextNamespace, defaultNamespace, apiVersionResourceCache, fetched, watcher>>

\* A caller starts patch(spec, pretty, dryRun, fieldManager, force, options).
CallPatchWith(c) ==
    /\ call[c].pc = "idle"
    /\ \E spec \in HeaderSpecs, contentType \in PatchContentTypes \cup {Absent},
          fieldManager \in FieldManagers, force \in Forces :
          call' = [call EXCEPT ![c] =
                     beginCall("patch", "patch", spec,
                               [NoHeaders EXCEPT !["content-type"] = contentType],
                               [NoArgs EXCEPT !.fieldManager = fieldManager,
                                              !.force = force],
                               apiVersionResourceCache, defaultNamespace)]
    /\ UNCHANGED <<contextNamespace, defaultNamespace, apiVersionResourceCache, fetched, watcher>>

\* list and patch called with their optional arguments, one caller at a time.
QueryNext ==
    \E c \in {"a"} :
        \/ CallListWith(c)
        \/ CallPatchWith(c)
        \/ FetchError(c)
        \/ FetchResponse(c, FALSE)
        \/ RequestError(c)
        \/ Respond(c, PageBodies)
        \/ Return(c)

\* The client as makeApiClient leaves it for a context without a namespace.
QueryInit == Init /\ contextNamespace = Undefined

QuerySpec == QueryInit /\ [][QueryNext]_vars

\* The client as its constructor leaves it: defaultNamespace = 'default'.
ResolveInit == Init /\ defaultNamespace = DefaultNs

ResolveSpec == ResolveInit /\ [][ResolveNext]_vars

----------------------------------------------------------------------------
\* Vocabulary of the properties

\* A status code in 200..299.
Success2xx(statusCode) == statusCode \in 200..299

\* The resource list names the kind.
Contains(resources, kind) == \E i \in 1..Len(resources) : resources[i].kind = kind

\* d is the list's first descriptor of the kind.
FirstOfKind(resources, kind, d) ==
    \E i \in 1..Len(resources) :
        /\ resources[i] = d
        /\ d.kind = kind
        /\ \A j \in 1..(i - 1) : resources[j].kind # kind

\* The cache slot of groupVersion gv holds a list that names the kind.
Cached(gv, kind) ==
    /\ gv \in GroupVersions
    /\ apiVersionResourceCache[gv].present
    /\ Contains(apiVersionResourceCache[gv].resources, kind)

\* Caller c starts resource(gv, kind) in this step.
StartsResolve(c) == call[c].pc = "idle" /\ call'[c].method = "resource"

\* The call got a 2xx answer to its metadata fetch, carrying a resource list.
FetchedList(rec) ==
    /\ rec.reply.to = "fetch"
    /\ rec.reply.kind = "response"
    /\ Success2xx(rec.reply.statusCode)
    /\ rec.reply.body.present

----------------------------------------------------------------------------
\* C1  Cache hit.

\* C1 as stated: once some successful metadata fetch for a groupVersion has
\* contained a kind, every later resource(groupVersion, kind) call returns a
\* descriptor of that kind and sends no fetch.
C1_HitOnceFetched ==
    [][\A c \in Callers :
         (StartsResolve(c)
            /\ <<call'[c].spec.apiVersion, call'[c].spec.kind>> \in fetched)
         => /\ call'[c].pc = "fulfilled"
            /\ call'[c].fetches = 0
            /\ call'[c].resource.kind = call'[c].spec.kind]_vars

\* C1 amended: a resource(groupVersion, kind) call made while the cache slot
\* of the groupVersion holds a list naming the kind returns that list's first
\* descriptor of the kind, sends no fetch and leaves the cache as it is.
C1_HitWhileCached ==
    [][\A c \in Callers :
         (StartsResolve(c) /\ Cached(call'[c].spec.apiVersion, call'[c].spec.kind))
         => /\ call'[c].pc = "fulfilled"
            /\ call'[c].fetches = 0
            /\ FirstOfKind(apiVersionResourceCache[call'[c].spec.apiVersion].resources,
                           call'[c].spec.kind, call'[c].resource)
            /\ apiVersionResourceCache' = apiVersionResourceCache]_vars

\* A resolve answered from the cache, after a fetch had stored the kind, while
\* the other caller has a fetch in flight.
C1_Witness ==
    \E c \in Callers, d \in Callers :
        /\ call[c].method = "resource"
        /\ call[c].pc = "fulfilled"
        /\ call[c].lookup = "hit"
        /\ call[c].fetches = 0
        /\ call[c].resource.kind = call[c].spec.kind
        /\ <<call[c].spec.apiVersion, call[c].spec.kind>> \in fetched
        /\ call[d].pc = "fetching"

----------------------------------------------------------------------------
\* C2  Refetch on miss.

\* C2: a resource(groupVersion, kind) call that finds the groupVersion cached
\* without the kind sends exactly one metadata fetch, and when the answer is a
\* 2xx list naming the kind it returns that list's first descriptor of the kind.
C2_RefetchOnMiss ==
    \A c \in Callers :
        (call[c].method = "resource" /\ call[c].lookup = "missing")
        => /\ call[c].fetches = 1
           /\ (FetchedList(call[c])
                 /\ Contains(call[c].reply.body.resources, call[c].spec.kind))
              => /\ call[c].pc = "fulfilled"
                 /\ FirstOfKind(call[c].reply.body.resources, call[c].spec.kind,
                                call[c].resource)

C2_Witness ==
    \E c \in Callers :
        /\ call[c].method = "resource"
        /\ call[c].lookup = "missing"
        /\ FetchedList(call[c])
        /\ Contains(call[c].reply.body.resources, call[c].spec.kind)
        /\ call[c].pc = "fulfilled"

----------------------------------------------------------------------------
\* C3  Not found after refetch.

\* C3: when the 2xx list answering a call's metadata fetch does not name the
\* kind, the call has sent that one fetch and no object request; resource()
\* returns undefined, and specUriPath and every operation reject with the
\* 'Unrecognized API version and kind' error.
C3_NotFoundAfterRefetch ==
    \A c \in Callers :
        (FetchedList(call[c])
           /\ ~Contains(call[c].reply.body.resources, call[c].spec.kind))
        => /\ call[c].fetches = 1
           /\ call[c].requests = 0
           /\ IF call[c].method = "resource"
              THEN call[c].pc = "fulfilled" /\ call[c].resource = NoResource
              ELSE call[c].pc = "rejected" /\ call[c].error = Error("unrecognized")

C3_Witness ==
    \E c \in Callers :
        /\ FetchedList(call[c])
        /\ ~Contains(call[c].reply.body.resources, call[c].spec.kind)
        /\ call[c].method \in KubernetesApiAction
        /\ call[c].lookup = "missing"
        /\ call[c].pc = "rejected"

----------------------------------------------------------------------------
\* C4  Status codes.

\* The body an error or a result carries is the decoding of the wire body.
Decodes(decoded, wire) == [decoded EXCEPT !.type = Undefined] = wire

\* C4: a call whose request was answered with a status outside 200..299 is
\* rejected with an HttpError carrying that status and the decoded body, and
\* an operation whose object request was answered with a 2xx status is
\* fulfilled.
C4_StatusSurfaced ==
    \A c \in Callers :
        call[c].reply.kind = "response"
        => /\ ~Success2xx(call[c].reply.statusCode)
              => /\ call[c].pc = "rejected"
                 /\ call[c].error.name = "HttpError"
                 /\ call[c].error.statusCode = call[c].reply.statusCode
                 /\ Decodes(call[c].error.body, call[c].reply.body)
           /\ (Success2xx(call[c].reply.statusCode) /\ call[c].reply.to = "request")
              => /\ call[c].pc = "fulfilled"
                 /\ call[c].statusCode = call[c].reply.statusCode
                 /\ Decodes(call[c].body, call[c].reply.body)

----------------------------------------------------------------------------
\* C5  Every call settles.

\* C5: once the transport has delivered the outcome of an operation's object
\* request, the operation's promise is fulfilled or rejected.
C5_EverySettles ==
    \A c \in Callers :
        (call[c].method \in KubernetesApiAction /\ call[c].reply.to = "request")
        => call[c].pc \in {"fulfilled", "rejected"}

----------------------------------------------------------------------------
\* C6  Fail fast.

KindErrors == {"kindNotSet", "readKind", "listKind"}

FailFastErrors == KindErrors \cup {"nameNotSet", "unrecognized"}

\* C6 as stated: an InvalidSpec or UnknownResource error is surfaced before
\* the operation has made any network call.
C6_NoNetworkBeforeError ==
    \A c \in Callers :
        (call[c].method \in KubernetesApiAction
           /\ call[c].pc = "rejected" /\ call[c].error.name \in FailFastErrors)
        => call[c].fetches = 0 /\ call[c].requests = 0

\* C6 amended: such an error is surfaced before the operation's object request
\* is sent; a missing kind before any network call at all, a missing name
\* after the metadata fetch when the lookup missed the cache, and
\* UnknownResource always after exactly one metadata fetch.
C6_FailFast ==
    \A c \in Callers :
        (call[c].method \in KubernetesApiAction
           /\ call[c].pc = "rejected" /\ call[c].error.name \in FailFastErrors)
        => /\ call[c].requests = 0
           /\ call[c].error.name \in KindErrors => call[c].fetches = 0
           /\ call[c].error.name = "unrecognized" => call[c].fetches = 1
           /\ call[c].error.name = "nameNotSet"
              => call[c].fetches = (IF call[c].lookup = "hit" THEN 0 ELSE 1)

\* An operation rejected for its missing name after its metadata fetch.
C6_Witness ==
    \E c \in Callers :
        /\ call[c].method \in KubernetesApiAction
        /\ call[c].pc = "rejected"
        /\ call[c].error.name = "nameNotSet"
        /\ call[c].fetches = 1
        /\ call[c].requests = 0

----------------------------------------------------------------------------
\* C7  The path is lower-case, and building it again gives the same path.

\* What a second specUriPath(spec, action) returns for the caller's spec
\* object as the first call left it, resource() resolving as before.
Again(rec) ==
    specUriPathTail(specUriPathHead(rec.spec).spec, rec.action, rec.resource,
                    defaultNamespace)

\* C7: a path specUriPath returns holds no upper-case character, and a second
\* specUriPath with the same spec object and action, against the cache entry
\* that resolved the first, returns the same path and changes the spec no more.
C7_LowerCaseIdempotent ==
    \A c \in Callers :
        call[c].path # Undefined
        => /\ \A i \in 1..Len(call[c].path) : call[c].path[i] \notin UpperCaseChars
           /\ FirstOfKind(apiVersionResourceCache[call[c].spec.apiVersion].resources,
                          call[c].spec.kind, call[c].resource)
           /\ specUriPathHead(call[c].spec).error = NoError
           /\ Again(call[c]).error = NoError
           /\ Again(call[c]).path = call[c].path
           /\ Again(call[c]).spec = call[c].spec

\* A path built from upper-case inputs with the namespace filled in by the
\* first call.
C7_Witness ==
    \E c \in Callers :
        /\ call[c].path # Undefined
        /\ call[c].action = "read"
        /\ call[c].input.apiVersion = GroupV1
        /\ call[c].input.metadata.namespace = Undefined
        /\ call[c].resource.namespaced
        /\ call[c].input.metadata.name = <<"F", "/">>
        /\ call[c].spec # call[c].input

----------------------------------------------------------------------------
\* C8  The list path.

Root(apiVersion) ==
    IF \E i \in 1..Len(apiVersion) : apiVersion[i] = "/"
    THEN <<"a", "p", "i", "s">> ELSE <<"a", "p", "i">>

\* The list path of a kind: base, root, apiVersion, the namespace when one
\* was given and the kind is namespaced, the plural name; no name.
ListPath(apiVersion, namespace, d) ==
    toLowerCase(join(
        <<basePath, Root(apiVersion), apiVersion>>
        \o (IF d.namespaced /\ ~Falsy(namespace)
            THEN <<<<"n", "a", "m", "e", "s", "p", "a", "c", "e", "s">>,
                   encodeURIComponent(namespace)>>
            ELSE <<>>)
        \o <<d.name>>))

\* C8: for action list the path is the list path for the namespace the caller
\* gave (none: no 'namespaces' segment), with no name segment whatever
\* metadata.name holds, and the spec's namespace stays as the caller gave it.
C8_ListPath ==
    \A c \in Callers :
        (call[c].action = "list" /\ call[c].resource # NoResource)
        => /\ call[c].path = ListPath(call[c].spec.apiVersion,
                                      call[c].input.metadata.namespace, call[c].resource)
           /\ call[c].spec.metadata.namespace = call[c].input.metadata.namespace
           /\ call[c].error.name # "nameNotSet"

\* specUriPath for list with a name and no namespace, for a namespaced kind.
C8_Witness ==
    \E c \in Callers :
        /\ call[c].action = "list"
        /\ call[c].path # Undefined
        /\ ~Falsy(call[c].input.metadata.name)
        /\ call[c].input.metadata.namespace = Undefined
        /\ call[c].resource.namespaced

----------------------------------------------------------------------------
\* C9  Errors of specUriPath.

SingleObjectActions == {"read", "replace", "patch", "delete"}

\* C9: a call whose spec has an empty kind is rejected with no network call
\* (by specUriPath itself with its kind error); a call for read, replace,
\* patch or delete whose name is empty is rejected with the name error once
\* the resource is resolved; and the name error is raised for no other case.
C9_InvalidSpec ==
    \A c \in Callers :
        call[c].method \in KubernetesApiAction \cup {"specUriPath"}
        => /\ Falsy(call[c].input.kind)
              => /\ call[c].pc = "rejected"
                 /\ call[c].fetches = 0
                 /\ call[c].method = "specUriPath" => call[c].error = Error("kindNotSet")
           /\ (call[c].action \in SingleObjectActions
                 /\ Falsy(call[c].input.metadata.name)
                 /\ call[c].resource # NoResource)
              => /\ call[c].pc = "rejected"
                 /\ call[c].error = Error("nameNotSet")
                 /\ call[c].requests = 0
           /\ call[c].error.name = "nameNotSet"
              => /\ call[c].action \in SingleObjectActions
                 /\ Falsy(call[c].input.metadata.name)
           /\ call[c].path # Undefined
              => /\ ~Falsy(call[c].input.kind)
                 /\ call[c].action \in SingleObjectActions
                    => ~Falsy(call[c].input.metadata.name)

\* A delete rejected for its empty name, and nothing sent for it but the fetch.
C9_Witness ==
    \E c \in Callers :
        /\ call[c].method = "delete"
        /\ call[c].input.metadata.name = EmptyString
        /\ call[c].pc = "rejected"
        /\ call[c].error = Error("nameNotSet")

----------------------------------------------------------------------------
\* C10  An absent apiVersion.

ApiVersionErrors == {"readApiVersion", "listApiVersion", "resourceApiVersion"}

ApiV1Path == toLowerCase(join(<<basePath, <<"a", "p", "i">>, V1, <<>>>>))

\* The call went on with apiVersion 'v1': the spec holds it, the resolve is
\* keyed by it, and the path lies under <base>/api/v1/.
DefaultedToV1(rec) ==
    /\ rec.spec.apiVersion = V1
    /\ rec.error.name \notin ApiVersionErrors
    /\ rec.resource # NoResource
       => \E i \in 1..Len(apiVersionResourceCache[V1].resources) :
             apiVersionResourceCache[V1].resources[i] = rec.resource
    /\ rec.path # Undefined
       => /\ Len(rec.path) > Len(ApiV1Path)
          /\ SubSeq(rec.path, 1, Len(ApiV1Path)) = ApiV1Path

\* C10 as stated: every operation accepts a header without apiVersion and
\* goes on with 'v1'.
C10_DefaultedByEveryOperation ==
    \A c \in Callers :
        (call[c].method \in KubernetesApiAction
           /\ call[c].input.apiVersion = Undefined /\ ~Falsy(call[c].input.kind))
        => DefaultedToV1(call[c])

\* C10 amended: create, replace, patch and delete (and specUriPath itself)
\* accept an absent or empty apiVersion and go on with 'v1'; read rejects it,
\* list rejects an undefined apiVersion and goes on with 'v1' for an empty
\* one; both reject before any network call.
C10_DefaultedWhereAccepted ==
    \A c \in Callers :
        (call[c].method \in KubernetesApiAction \cup {"specUriPath"}
           /\ Falsy(call[c].input.apiVersion) /\ ~Falsy(call[c].input.kind))
        => CASE call[c].method = "read" ->
                  /\ call[c].pc = "rejected"
                  /\ call[c].error = Error("readApiVersion")
                  /\ call[c].fetches = 0 /\ call[c].requests = 0
             [] call[c].method = "list" /\ call[c].input.apiVersion = Undefined ->
                  /\ call[c].pc = "rejected"
                  /\ call[c].error = Error("listApiVersion")
                  /\ call[c].fetches = 0 /\ call[c].requests = 0
             [] OTHER -> DefaultedToV1(call[c])

\* A create without apiVersion whose request is in flight.
C10_Witness ==
    \E c \in Callers :
        /\ call[c].method = "create"
        /\ call[c].input.apiVersion = Undefined
        /\ call[c].pc = "requesting"
        /\ call[c].spec.apiVersion = V1

----------------------------------------------------------------------------
\* C11  The type a response body is decoded as.

V1NodeType == <<"V", "1", "N", "o", "d", "e">>

\* "<Version><Kind>" of the body's own apiVersion and kind, for the bodies
\* of ObjectBodies; 'KubernetesObject' when the body names neither.
OwnType(wire) ==
    CASE wire.apiVersion = Undefined \/ wire.kind = Undefined -> KubernetesObjectType
      [] wire.apiVersion = V1 /\ wire.kind = Status -> V1StatusType
      [] wire.apiVersion = GroupV1 /\ wire.kind = Node -> V1NodeType
      [] OTHER -> Undefined

\* The decoded body a settled call hands to its caller.
Decoded(rec) == IF rec.pc = "fulfilled" THEN rec.body ELSE rec.error.body

\* An operation settled on a response to its object request that has a body.
SettledOnBody(rec) ==
    /\ rec.method \in KubernetesApiAction
    /\ rec.pc \in {"fulfilled", "rejected"}
    /\ rec.reply.to = "request" /\ rec.reply.kind = "response"
    /\ rec.reply.body.present

\* C11 as stated: every operation decodes the response body as the type named
\* by the body's own apiVersion and kind.
C11_DecodedAsOwnType ==
    \A c \in Callers :
        SettledOnBody(call[c]) => Decoded(call[c]).type = OwnType(call[c].reply.body)

\* C11 amended: create, read, replace, patch and list decode the response
\* body as the type named by the body's own apiVersion and kind, whatever the
\* request's spec names; delete decodes every response body as V1Status.
C11_DecodedAsOwnTypeButDelete ==
    \A c \in Callers :
        SettledOnBody(call[c])
        => /\ Decodes(Decoded(call[c]), call[c].reply.body)
           /\ Decoded(call[c]).type =
                 IF call[c].method = "delete" THEN V1StatusType
                 ELSE OwnType(call[c].reply.body)

\* A create of a v1 Pod answered with a G/v1 Node, decoded as V1Node.
C11_Witness ==
    \E c \in Callers :
        /\ SettledOnBody(call[c])
        /\ call[c].method = "create"
        /\ call[c].spec.apiVersion = V1 /\ call[c].spec.kind = Pod
        /\ call[c].reply.body = Body(GroupV1, Node, <<>>)
        /\ call[c].pc = "fulfilled"
        /\ call[c].body.type = V1NodeType

----------------------------------------------------------------------------
\* C12  Transport failures.

\* The transport failed a request made for an Object API operation.
TransportFailed(rec) ==
    rec.method \in KubernetesApiAction /\ rec.reply.kind = "error"

\* C12 as stated: the operation rejects with the transport's error as the
\* transport gave it, whichever request failed.
C12_TransportErrorUnmodified ==
    \A c \in Callers :
        TransportFailed(call[c])
        => call[c].pc = "rejected" /\ call[c].error = TransportError

\* C12 amended: the operation rejects with the transport's error object; a
\* failure of the object request leaves it as it was, a failure of the
\* metadata fetch has put the 'Failed to fetch resource metadata' prefix on
\* its message.
C12_TransportErrorSurfaced ==
    \A c \in Callers :
        TransportFailed(call[c])
        => /\ call[c].pc = "rejected"
           /\ [call[c].error EXCEPT !.prefixed = FALSE] = TransportError
           /\ call[c].error.prefixed = (call[c].reply.to = "fetch")
           /\ call[c].requests = (IF call[c].reply.to = "fetch" THEN 0 ELSE 1)

\* A read whose metadata fetch failed in the transport.
C12_Witness ==
    \E c \in Callers :
        /\ TransportFailed(call[c])
        /\ call[c].method = "read"
        /\ call[c].reply.to = "fetch"
        /\ call[c].pc = "rejected"
        /\ call[c].error.name = "transport"

----------------------------------------------------------------------------
\* C13  No internal retry.

\* The last transport outcome of the call was a failure.
Failed(rec) ==
    \/ rec.reply.kind = "error"
    \/ rec.reply.kind = "response" /\ ~Success2xx(rec.reply.statusCode)

AtMostOneEach ==
    \A c \in Callers :
        /\ call[c].fetches <= 1 /\ call[c].requests <= 1
        /\ (Failed(call[c]) /\ call[c].reply.to = "fetch")
           => call[c].pc = "rejected" /\ call[c].requests = 0
        /\ (Failed(call[c]) /\ call[c].reply.to = "request")
           => call[c].pc \notin {"fetching", "requesting"}

NothingSentAfterFailure ==
    \A c \in Callers :
        Failed(call[c])
        => /\ call'[c].fetches <= call[c].fetches
           /\ call'[c].requests <= call[c].requests
           /\ call'[c].pc \notin {"fetching", "requesting"}

\* C13: a call sends at most one metadata fetch and at most one object
\* request, and once one of them has failed (transport error or non-2xx) the
\* call has nothing in flight and sends nothing more.
C13_NoRetry == []AtMostOneEach /\ [][NothingSentAfterFailure]_vars

\* A call that sent both its requests, the second of which failed.
C13_Witness ==
    \E c \in Callers :
        /\ call[c].fetches = 1 /\ call[c].requests = 1
        /\ Failed(call[c]) /\ call[c].reply.to = "request"
        /\ call[c].pc = "rejected"

----------------------------------------------------------------------------
\* C14  Header negotiation.

\* The default an operation has for a header, if any.
DefaultHeader(method, h) ==
    IF h = "accept" THEN Json
    ELSE IF h = "content-type" /\ method = "patch" THEN StrategicMergePatch
    ELSE Absent

\* C14: the object request of an operation carries, for every header the
\* caller's options supply, the caller's value, and for the others
\* accept = application/json and, for patch only, content-type =
\* application/strategic-merge-patch+json; nothing else.
C14_HeadersSent ==
    \A c \in Callers :
        (call[c].method \in KubernetesApiAction /\ call[c].requests = 1)
        => \A h \in HeaderNames :
              call[c].headers[h] =
                 IF call[c].options[h] # Absent THEN call[c].options[h]
                 ELSE DefaultHeader(call[c].method, h)

\* A patch in flight whose caller chose the content type and left accept to
\* the default.
C14_Witness ==
    \E c \in Callers :
        /\ call[c].method = "patch" /\ call[c].pc = "requesting"
        /\ call[c].options["content-type"] = "application/merge-patch+json"
        /\ call[c].options["accept"] = Absent
        /\ call[c].headers["content-type"] = "application/merge-patch+json"
        /\ call[c].headers["accept"] = Json

----------------------------------------------------------------------------
\* C15  Watch delivery order.

\* How many of the events read failed their decoding.
DecodeFailures(rec) ==
    Cardinality({i \in 1..Len(rec.doneCalls) : rec.doneCalls[i].name = "decode"})

\* The callback invocations are the events read so far, one invocation per
\* event, in arrival order, each with its event's type and decoded object.
DeliveredAsArrived ==
    \A c \in Callers :
        call[c].method = "watch"
        => /\ call[c].read <= Len(call[c].arrived)
           /\ Len(call[c].delivered) = call[c].read - DecodeFailures(call[c])
           /\ \A i \in 1..Len(call[c].delivered) :
                 /\ call[c].delivered[i].phase = call[c].arrived[i].type
                 /\ call[c].delivered[i].watchType = call[c].arrived[i].type
                 /\ call[c].delivered[i].object =
                       deserialize(call[c].arrived[i].object, call[c].type)

\* An invocation begins only when none is running, and one at a time.
OneAtATime ==
    \A c \in Callers :
        (call'[c].method = "watch" /\ call'[c].delivered # call[c].delivered)
        => /\ ~call[c].inCallback /\ call'[c].inCallback
           /\ Len(call'[c].delivered) = Len(call[c].delivered) + 1
           /\ SubSeq(call'[c].delivered, 1, Len(call[c].delivered)) = call[c].delivered

\* C15: the caller's callback is invoked exactly once per event the session
\* has read, in arrival order, with the event's own type (BOOKMARK like the
\* others), and an invocation returns before the next begins.
C15_DeliveredInOrder == []DeliveredAsArrived /\ [][OneAtATime]_vars

\* Three events, a bookmark among them, delivered in order.
C15_Witness ==
    \E c \in Callers :
        /\ call[c].pc = "streaming"
        /\ Len(call[c].delivered) = 3
        /\ call[c].delivered[1].phase = "ADDED"
        /\ call[c].delivered[2].phase = "BOOKMARK"
        /\ call[c].delivered[3].phase = "DELETED"

----------------------------------------------------------------------------
\* C16  Watch cancellation.

\* Once abort was invoked the session is ending or has ended, and at most one
\* callback invocation has begun since.
AbortedEnds ==
    \A c \in Callers :
        (call[c].method = "watch" /\ call[c].aborts > 0)
        => /\ call[c].pc \in {"closing", "closed", "errored"}
           /\ Len(call[c].delivered) <= call[c].atAbort + 1

\* An aborted session goes nowhere but to Closed, and a Closed session
\* invokes the callback no more.
ClosedStaysSilent ==
    \A c \in Callers :
        /\ call[c].pc = "closing" => call'[c].pc \in {"closing", "closed"}
        /\ (call[c].pc = "closed" /\ call'[c].method = "watch")
           => call'[c].pc = "closed" /\ call'[c].delivered = call[c].delivered

\* C16: after abort, also when it is invoked while an event is being
\* delivered, at most one further callback invocation occurs; the session
\* moves to Closed and nowhere else, and once Closed it invokes no callback.
C16_AbortCloses == []AbortedEnds /\ [][ClosedStaysSilent]_vars

\* A session closed after abort that made one more invocation after it.
C16_Witness ==
    \E c \in Callers :
        /\ call[c].pc = "closed"
        /\ call[c].aborts = 1
        /\ call[c].atAbort >= 1
        /\ Len(call[c].delivered) = call[c].atAbort + 1

----------------------------------------------------------------------------
\* C17  Abort is idempotent.

\* What the session is: its state and everything it has done.
Session(rec) ==
    <<rec.pc, rec.arrived, rec.read, rec.delivered, rec.inCallback, rec.doneCalls, rec.last>>

\* A step in which caller c invokes abort.
AbortStep(c) ==
    call[c].method = "watch" /\ call'[c].aborts = call[c].aborts + 1

\* An abort raises nothing; the first one on a live session starts its
\* closing, inside the callback as outside it; any other leaves the session
\* as it is.
AbortIdempotent ==
    \A c \in Callers :
        AbortStep(c)
        => /\ call'[c].thrown = NoError
           /\ IF call[c].pc \in {"connecting", "streaming"}
              THEN /\ call[c].aborts = 0
                   /\ call'[c].pc = "closing"
                   /\ call'[c].inCallback = call[c].inCallback
                   /\ call'[c].delivered = call[c].delivered
              ELSE Session(call'[c]) = Session(call[c])

\* C17: invoking abort again, from the callback or from outside it, in any
\* session state including Closed and Errored, leaves the session as the
\* first invocation left it and raises no error.
C17_AbortIdempotent == [][AbortIdempotent]_vars

\* abort invoked twice while the callback is running.
C17_Witness ==
    \E c \in Callers :
        /\ call[c].method = "watch"
        /\ call[c].aborts = 2
        /\ call[c].inCallback
        /\ call[c].pc = "closing"
        /\ call[c].thrown = NoError

----------------------------------------------------------------------------
\* C18  Watch error termination.

\* The errors a session hands to done.
SessionErrors == StreamErrors \cup {Error("decode")}

\* done was invoked exactly when the session is Errored, once, with the
\* error; an event whose decoding failed in cb has ended the session so.
ErroredCallsDoneOnce ==
    \A c \in Callers :
        call[c].method = "watch"
        => /\ Len(call[c].doneCalls) = (IF call[c].pc = "errored" THEN 1 ELSE 0)
           /\ \A i \in 1..Len(call[c].doneCalls) : call[c].doneCalls[i] \in SessionErrors
           /\ (call[c].read > 0 /\ ~call[c].arrived[call[c].read].decodable)
              => /\ call[c].pc = "errored"
                 /\ call[c].doneCalls = <<Error("decode")>>
                 /\ Len(call[c].delivered) = call[c].read - 1

\* An Errored session invokes neither the callback nor done again.
ErroredStaysSilent ==
    \A c \in Callers :
        (call[c].pc = "errored" /\ call'[c].method = "watch")
        => /\ call'[c].pc = "errored"
           /\ call'[c].delivered = call[c].delivered
           /\ call'[c].doneCalls = call[c].doneCalls

\* C18: when the stream fails (transport error, undecodable line) or the
\* re-decoding of an event in cb fails, done is invoked exactly once, with
\* the error, and the callback is invoked no more.
C18_ErrorEndsSession == []ErroredCallsDoneOnce /\ [][ErroredStaysSilent]_vars

\* A session ended by an event that failed its re-decoding, after a delivery.
C18_Witness ==
    \E c \in Callers :
        /\ call[c].pc = "errored"
        /\ call[c].doneCalls = <<Error("decode")>>
        /\ Len(call[c].delivered) = 1
        /\ call[c].read = 2
        /\ ~call[c].inCallback

----------------------------------------------------------------------------
\* C19  Errors while a watch session is being established.

\* The watch call failed before there was a session.
SetupFailed(rec) == rec.method = "watch" /\ rec.pc = "rejected"

SetupErrors == {"watcherNotInitialized", "kindNotSet", "unrecognized", "transport", "HttpError"}

\* C19 as stated: an error of the establishing phase is handed to the done
\* handler, once.
C19_SetupErrorsToDone ==
    \A c \in Callers :
        SetupFailed(call[c]) => call[c].doneCalls = <<call[c].error>>

\* C19 amended: an error of the establishing phase rejects the promise watch
\* returned; done and the callback are never invoked for it and no watch
\* request is sent.  A missing watcher and a missing kind fail before any
\* network call, an unknown resource and a failed metadata fetch after the
\* fetch.
C19_SetupErrorsReject ==
    \A c \in Callers :
        call[c].method = "watch"
        => /\ SetupFailed(call[c])
              => /\ call[c].error.name \in SetupErrors
                 /\ call[c].doneCalls = <<>> /\ call[c].delivered = <<>>
                 /\ call[c].requests = 0
                 /\ call[c].fetches =
                       (IF call[c].error.name \in {"watcherNotInitialized", "kindNotSet"}
                        THEN 0 ELSE 1)
           /\ ~watcher => SetupFailed(call[c]) /\ call[c].error = Error("watcherNotInitialized")
           /\ (watcher /\ Falsy(call[c].input.kind))
              => SetupFailed(call[c]) /\ call[c].error = Error("kindNotSet")
           /\ (call[c].reply.to = "fetch" /\ Failed(call[c]))
              => SetupFailed(call[c]) /\ call[c].error.name \in {"transport", "HttpError"}
           /\ (call[c].reply.to = "fetch" /\ ~Failed(call[c])
                 /\ ~Contains(call[c].reply.body.resources, call[c].spec.kind))
              => SetupFailed(call[c]) /\ call[c].error = Error("unrecognized")

\* A watch of a kind the server does not list, rejected after its fetch.
C19_Witness ==
    \E c \in Callers :
        /\ SetupFailed(call[c])
        /\ call[c].error = Error("unrecognized")
        /\ call[c].fetches = 1
        /\ call[c].doneCalls = <<>>

----------------------------------------------------------------------------
\* C20  Replace, not merge.

\* The step in which the successful response to c's metadata fetch arrives.
FetchSucceeds(c) ==
    /\ call[c].pc = "fetching" /\ call'[c].pc # "fetching"
    /\ call'[c].reply.to = "fetch" /\ call'[c].reply.kind = "response"
    /\ Success2xx(call'[c].reply.statusCode)

\* The cache entry of the fetch's groupVersion becomes the fetched response,
\* and a kind the response lacks is cached no more.
ReplacedByResponse ==
    \A c \in Callers :
        FetchSucceeds(c)
        => LET gv    == call[c].spec.apiVersion
               fresh == call'[c].reply.body.resources
           IN  /\ apiVersionResourceCache'[gv] = Entry(fresh)
               /\ \A kind \in {Pod, Node} :
                     (Cached(gv, kind) /\ ~Contains(fresh, kind))
                     => ~Contains(apiVersionResourceCache'[gv].resources, kind)

\* C20: a successful metadata fetch for a groupVersion leaves exactly the
\* fetched response as the cached descriptor set of that groupVersion;
\* descriptors cached before and absent from the response are gone.
C20_ReplaceNotMerge == [][ReplacedByResponse]_vars

\* A groupVersion whose entry once held Pod and, after a later fetch, holds
\* only Node.
C20_Witness ==
    \E gv \in GroupVersions :
        /\ <<gv, Pod>> \in fetched
        /\ apiVersionResourceCache[gv] = Entry(<<NodeCl>>)

----------------------------------------------------------------------------
\* C21  Concurrent resolves never corrupt the cache.

\* The complete discovery responses a server sends for a groupVersion.
CompleteResponses == {Entry(list) : list \in ResourceLists}

\* Every cache entry is absent or one complete discovery response, and a
\* resolve that returned a descriptor sent at most one fetch for it.
EntriesAreComplete ==
    /\ \A gv \in GroupVersions :
          apiVersionResourceCache[gv] = NoEntry
          \/ apiVersionResourceCache[gv] \in CompleteResponses
    /\ \A c \in Callers :
          (call[c].method = "resource" /\ call[c].pc = "fulfilled")
          => /\ call[c].fetches <= 1
             /\ call[c].resource # NoResource => call[c].resource.kind = call[c].spec.kind

\* An entry changes only by becoming the whole response that arrived in the
\* step, for the groupVersion it was fetched for.
EntryBecomesResponse ==
    \A gv \in GroupVersions :
        apiVersionResourceCache'[gv] # apiVersionResourceCache[gv]
        => \E c \in Callers :
              /\ FetchSucceeds(c)
              /\ call[c].spec.apiVersion = gv
              /\ apiVersionResourceCache'[gv] = Entry(call'[c].reply.body.resources)

\* C21: under every interleaving of concurrent resolves each cache entry is
\* absent or equal to one complete discovery response received for its
\* groupVersion, never a mix or a part; a race costs fetches only.
C21_NoCorruption == []EntriesAreComplete /\ [][EntryBecomesResponse]_vars

\* Two resolves of one groupVersion that both started on the empty entry and
\* got different responses.
C21_Witness ==
    /\ call["a"].method = "resource" /\ call["b"].method = "resource"
    /\ call["a"].spec.apiVersion = call["b"].spec.apiVersion
    /\ call["a"].lookup = "absent" /\ call["b"].lookup = "absent"
    /\ FetchedList(call["a"]) /\ FetchedList(call["b"])
    /\ call["a"].reply.body # call["b"].reply.body
    /\ apiVersionResourceCache[call["a"].spec.apiVersion] \in CompleteResponses

----------------------------------------------------------------------------
\* C22  Last write wins.

\* Both callers resolved one groupVersion with a fetch each, the fetches in
\* flight at the same time, and both got a resource list.
RacedFetches ==
    /\ call["a"].method = "resource" /\ call["b"].method = "resource"
    /\ call["a"].spec.apiVersion = call["b"].spec.apiVersion
    /\ call["a"].issuedAfter \/ call["b"].issuedAfter
    /\ FetchedList(call["a"]) /\ FetchedList(call["b"])

\* Once the raced fetches are complete the entry is one of the two responses.
RaceLeavesAResponse ==
    RacedFetches
    => apiVersionResourceCache[call["a"].spec.apiVersion]
          \in {Entry(call[c].reply.body.resources) : c \in Callers}

\* The response that arrives last is the entry, whatever an earlier arrival
\* of the race stored and whichever fetch was issued first.
LastArrivalIsEntry ==
    \A c \in Callers :
        (FetchSucceeds(c) /\ \A d \in Callers : call'[d].pc # "fetching")
        => apiVersionResourceCache'[call[c].spec.apiVersion]
              = Entry(call'[c].reply.body.resources)

\* C22: when resolves of one groupVersion have fetches in flight at the same
\* time, the entry after all of them completed is the response that arrived
\* last, in whatever order the fetches were issued.
C22_LastWriteWins == []RaceLeavesAResponse /\ [][LastArrivalIsEntry]_vars

\* The fetch issued first answered last: its response is the entry, not the
\* different response of the fetch issued second.
C22_Witness ==
    /\ RacedFetches
    /\ call["b"].issuedAfter /\ ~call["a"].issuedAfter
    /\ call["a"].reply.body # call["b"].reply.body
    /\ apiVersionResourceCache[call["a"].spec.apiVersion]
          = Entry(call["a"].reply.body.resources)

----------------------------------------------------------------------------
\* C23  A resolve returns what its own response holds.

\* C23: a resolve that fetched returns the first descriptor of its kind in
\* the response of its own fetch, and undefined only if that response lacks
\* the kind, whatever other resolves have stored for the groupVersion.
C23_OwnResponseSearched ==
    \A c \in Callers :
        (call[c].method = "resource" /\ FetchedList(call[c]))
        => /\ call[c].pc = "fulfilled"
           /\ call[c].resource = find(call[c].reply.body.resources, call[c].spec.kind)
           /\ IF Contains(call[c].reply.body.resources, call[c].spec.kind)
              THEN FirstOfKind(call[c].reply.body.resources, call[c].spec.kind,
                               call[c].resource)
              ELSE call[c].resource = NoResource

\* A resolve that returned Pod from its own response although the entry, as a
\* racing refetch left it, has no Pod.
C23_Witness ==
    \E c \in Callers :
        /\ call[c].method = "resource" /\ FetchedList(call[c])
        /\ call[c].resource = PodNs
        /\ call[c].issuedAfter
        /\ apiVersionResourceCache[call[c].spec.apiVersion] = Entry(<<NodeCl>>)

----------------------------------------------------------------------------
\* C24  What changes the cache.

\* An entry changes only in the step in which a resolve for its groupVersion
\* that had missed gets a successful answer to its fetch.
OnlyAMissWrites ==
    \A gv \in GroupVersions :
        apiVersionResourceCache'[gv] # apiVersionResourceCache[gv]
        => \E c \in Callers :
              /\ FetchSucceeds(c)
              /\ call[c].spec.apiVersion = gv
              /\ call[c].lookup \in {"absent", "missing"}
              /\ call[c].fetches = 1

\* A failed fetch and a cache hit leave the whole cache as it is, and no
\* step removes an entry.
RestKeepsCache ==
    /\ \A c \in Callers :
          (call[c].pc = "fetching" /\ call'[c].pc # "fetching"
             /\ call'[c].reply.to = "fetch" /\ Failed(call'[c]))
          => apiVersionResourceCache' = apiVersionResourceCache
    /\ \A c \in Callers :
          (call[c].pc = "idle" /\ call'[c].lookup = "hit")
          => apiVersionResourceCache' = apiVersionResourceCache
    /\ \A gv \in GroupVersions :
          apiVersionResourceCache[gv].present => apiVersionResourceCache'[gv].present

\* C24: the entry of a groupVersion changes only when a resolve for it missed
\* and its metadata fetch succeeded; a failed fetch and a cache hit change
\* nothing, other groupVersions' entries stay, and no entry is ever removed.
C24_CacheFrame == [][OnlyAMissWrites /\ RestKeepsCache]_vars

\* A failed refetch for a groupVersion whose entry is still there, beside the
\* entry of the other groupVersion.
C24_Witness ==
    \E c \in Callers :
        /\ call[c].reply.to = "fetch" /\ Failed(call[c])
        /\ call[c].lookup = "missing"
        /\ \A gv \in GroupVersions : apiVersionResourceCache[gv].present

----------------------------------------------------------------------------
\* C25  The segments of a path.

\* The namespace a call has set when its path is built: the one the caller
\* gave, else the default namespace unless the action is list.
NamespaceSet(rec) ==
    IF ~Falsy(rec.input.metadata.namespace) THEN rec.input.metadata.namespace
    ELSE IF rec.action # "list" THEN defaultNamespace
    ELSE Undefined

\* The segments after the base path, as the claim lists them.
Segments(rec) ==
    <<Root(rec.spec.apiVersion), rec.spec.apiVersion>>
    \o (IF rec.resource.namespaced /\ ~Falsy(NamespaceSet(rec))
        THEN <<<<"n", "a", "m", "e", "s", "p", "a", "c", "e", "s">>,
               encodeURIComponent(NamespaceSet(rec))>>
        ELSE <<>>)
    \o <<rec.resource.name>>
    \o (IF rec.action \in SingleObjectActions
        THEN <<encodeURIComponent(rec.input.metadata.name)>>
        ELSE <<>>)

\* C25: a built path is the base path followed by 'apis' or 'api' (by the
\* '/' in apiVersion), apiVersion, 'namespaces' and the namespace exactly
\* when the kind is namespaced and a namespace is set, the plural name, and
\* the name exactly for read, replace, patch and delete; these are all the
\* segments it has, in this order, written percent-encoded and in lower case.
C25_PathSegments ==
    \A c \in Callers :
        (call[c].path # Undefined /\ call[c].resource # NoResource)
        => /\ call[c].path = toLowerCase(join(<<basePath>> \o Segments(call[c])))
           /\ Len(split(call[c].path))
                = Len(split(basePath)) + Len(Segments(call[c]))
                  + (IF Root(call[c].spec.apiVersion) = <<"a", "p", "i", "s">> THEN 1 ELSE 0)

\* A path for read of a cluster-scoped kind in a group, called with a
\* namespace and a name.
C25_Witness ==
    \E c \in Callers :
        /\ call[c].path # Undefined
        /\ call[c].action = "read"
        /\ call[c].resource # NoResource /\ ~call[c].resource.namespaced
        /\ call[c].spec.apiVersion = GroupV1
        /\ call[c].input.metadata.namespace = <<"N", " ">>
        /\ call[c].input.metadata.name = <<"F", "/">>

----------------------------------------------------------------------------
\* C26  The default namespace.

\* The namespace of the current context when it defines one, else 'default'.
Configured ==
    IF contextNamespace # Undefined /\ contextNamespace # EmptyString
    THEN contextNamespace
    ELSE <<"d", "e", "f", "a", "u", "l", "t">>

\* The path of a namespaced kind for a single object or for create, in
\* namespace ns.
PathIn(rec, ns) ==
    toLowerCase(join(
        <<basePath, Root(rec.spec.apiVersion), rec.spec.apiVersion,
          <<"n", "a", "m", "e", "s", "p", "a", "c", "e", "s">>,
          encodeURIComponent(ns), rec.resource.name>>
        \o (IF rec.action = "create" THEN <<>>
            ELSE <<encodeURIComponent(rec.input.metadata.name)>>)))

\* C26: for a namespaced kind and an action other than list, a call without
\* a namespace gets the path in the configured default namespace (the
\* current context's namespace when it has one, else 'default'), and the
\* default is what the client holds; a namespace the caller gave is the one
\* in the path and in the spec, for every action and kind.
C26_NamespaceDefault ==
    /\ defaultNamespace = Configured
    /\ \A c \in Callers :
          (call[c].path # Undefined /\ call[c].resource # NoResource) =>
             /\ (call[c].resource.namespaced /\ call[c].action # "list"
                   /\ Falsy(call[c].input.metadata.namespace))
                => /\ call[c].path = PathIn(call[c], Configured)
                   /\ call[c].spec.metadata.namespace = Configured
             /\ ~Falsy(call[c].input.metadata.namespace)
                => /\ call[c].spec.metadata.namespace = call[c].input.metadata.namespace
                   /\ (call[c].resource.namespaced /\ call[c].action # "list")
                      => call[c].path = PathIn(call[c], call[c].input.metadata.namespace)

\* A path built for a spec without a namespace by a client whose context
\* names a namespace.
C26_Witness ==
    \E c \in Callers :
        /\ call[c].path # Undefined
        /\ call[c].action = "replace"
        /\ call[c].resource # NoResource /\ call[c].resource.namespaced
        /\ call[c].input.metadata.namespace = Undefined
        /\ contextNamespace = <<"C", "x">>

----------------------------------------------------------------------------
\* C27  The shape of a watch event's object.

\* C27: every object handed to the caller's callback of a watch session is
\* decoded as the type its own apiVersion and kind name, whatever the
\* apiVersion and kind of the watch request.
C27_DecodedByOwnShape ==
    \A c \in Callers :
        call[c].method = "watch"
        => \A i \in 1..Len(call[c].delivered) :
              call[c].delivered[i].object.type
                 = getSerializationType(call[c].delivered[i].object.apiVersion,
                                        call[c].delivered[i].object.kind)

----------------------------------------------------------------------------
\* C28  List pagination.

\* A list call that got as far as its path has sent one GET whose query has
\* 'continue' exactly when the caller gave a continueToken, with the token
\* as given; no list call has sent more than one request.
PageQuery ==
    \A c \in Callers :
        call[c].method = "list"
        => /\ call[c].requests <= 1
           /\ call[c].path # Undefined
              => /\ call[c].requests = 1
                 /\ call[c].verb = "GET"
                 /\ "continue" \in DOMAIN call[c].qs <=> call[c].args.continueToken # Undefined
                 /\ "continue" \in DOMAIN call[c].qs
                    => call[c].qs["continue"] = call[c].args.continueToken

\* Once its request is answered, whatever the answer holds, a list call sends
\* nothing more.
OnePage ==
    \A c \in Callers :
        (call[c].method = "list" /\ call[c].reply.to = "request")
        => /\ call'[c].requests <= call[c].requests
           /\ call'[c].fetches <= call[c].fetches
           /\ call'[c].pc \notin {"fetching", "requesting"}

\* C28: one list call sends exactly one list request; its 'continue' query
\* parameter is the caller's continueToken as given when the caller gave
\* one and is absent otherwise; an answer carrying a continue token is
\* followed by no further request.
C28_CallerDrivenPages == []PageQuery /\ [][OnePage]_vars

\* A list called with a token, answered by a page that names the next token.
C28_Witness ==
    \E c \in Callers :
        /\ call[c].method = "list" /\ call[c].pc = "fulfilled"
        /\ call[c].args.continueToken = <<"T", "1">>
        /\ call[c].qs["continue"] = <<"T", "1">>
        /\ call[c].body.continue = <<"T", "2">>
        /\ call[c].requests = 1

----------------------------------------------------------------------------
\* C29  The force parameter of patch.

\* C29: a patch whose kind resolved and whose name is set sends its request
\* whatever force and Content-Type the caller gave, and the query of the
\* request has 'force' exactly when the caller gave force (true or false),
\* with the caller's value.
C29_ForcePassedThrough ==
    \A c \in Callers :
        call[c].method = "patch"
        => /\ (call[c].resource # NoResource /\ ~Falsy(call[c].input.metadata.name))
              => call[c].path # Undefined
           /\ call[c].path # Undefined
              => /\ call[c].requests = 1
                 /\ call[c].verb = "PATCH"
                 /\ "force" \in DOMAIN call[c].qs <=> call[c].args.force # Undefined
                 /\ "force" \in DOMAIN call[c].qs => call[c].qs["force"] = call[c].args.force

\* A JSON patch sent with force = false.
C29_Witness ==
    \E c \in Callers :
        /\ call[c].method = "patch" /\ call[c].pc = "requesting"
        /\ call[c].headers["content-type"] = "application/json-patch+json"
        /\ call[c].args.force = False
        /\ call[c].qs["force"] = False

----------------------------------------------------------------------------
\* C30  No negative caching.

\* Caller c starts, in this step, a call that reaches resource() with a
\* groupVersion and a kind.
Resolves(c) ==
    /\ call[c].pc = "idle"
    /\ call'[c].pc # "idle"
    /\ call'[c].lookup # "none"

\* A call that reaches resource() for a kind the cache does not name sends
\* one metadata fetch, whether the groupVersion has an entry or not.
MissFetches ==
    \A c \in Callers :
        (Resolves(c) /\ ~Cached(call'[c].spec.apiVersion, call'[c].spec.kind))
        => /\ call'[c].pc = "fetching"
           /\ call'[c].fetches = 1
           /\ call'[c].lookup
                 = IF apiVersionResourceCache[call'[c].spec.apiVersion].present
                   THEN "missing" ELSE "absent"

\* An answer without the kind leaves nothing behind but the list itself: the
\* resolve returns nothing and the entry is the answer's list.
MissLeavesTheList ==
    \A c \in Callers :
        (FetchSucceeds(c) /\ ~Contains(call'[c].reply.body.resources, call[c].spec.kind)
           /\ call[c].method = "resource")
        => /\ call'[c].resource = NoResource
           /\ apiVersionResourceCache'[call[c].spec.apiVersion]
                 = Entry(call'[c].reply.body.resources)

\* C30: a miss is not remembered: every call that resolves a kind which no
\* stored list of its groupVersion names sends one metadata fetch, however
\* often the kind was looked for before and whether or not the groupVersion
\* has an entry.
C30_NoNegativeCaching == [][MissFetches /\ MissLeavesTheList]_vars

\* A resolve fetching again for a kind that another resolve has just found
\* missing from the list now cached.
C30_Witness ==
    \E c, d \in Callers :
        /\ c # d
        /\ call[d].method = "resource" /\ call[d].pc = "fulfilled"
        /\ FetchedList(call[d]) /\ call[d].resource = NoResource
        /\ call[c].method = "resource" /\ call[c].pc = "fetching"
        /\ call[c].spec = call[d].spec
        /\ call[c].lookup = "missing" /\ call[c].fetches = 1
        /\ ~call[c].issuedAfter

----------------------------------------------------------------------------
\* C31  What specUriPath changes in the spec.

\* The call went past the kind check of specUriPath.
PastKindCheck(rec) ==
    /\ rec.method \in KubernetesApiAction \cup {"specUriPath", "watch"}
    /\ rec.error.name \notin
          {"kindNotSet", "readKind", "readApiVersion", "listApiVersion", "listKind",
           "watcherNotInitialized"}

\* The namespace default applies to the call: its kind resolved as
\* namespaced, the action is not list and the caller gave no namespace.
NamespaceDue(rec) ==
    /\ rec.resource # NoResource
    /\ rec.resource.namespaced
    /\ rec.action # "list"
    /\ Falsy(rec.input.metadata.namespace)

\* Kind and name are as the caller gave them, and so are an apiVersion, a
\* metadata and a namespace the caller gave.
GivenStays(rec) ==
    /\ rec.spec.kind = rec.input.kind
    /\ rec.spec.metadata.name = rec.input.metadata.name
    /\ ~Falsy(rec.input.apiVersion) => rec.spec.apiVersion = rec.input.apiVersion
    /\ rec.input.metadata.present => rec.spec.metadata.present
    /\ ~Falsy(rec.input.metadata.namespace)
       => rec.spec.metadata.namespace = rec.input.metadata.namespace

\* What differs from the caller's spec is a default, filled where the
\* caller left a gap.
OnlyGapsFilled(rec) ==
    /\ rec.spec.apiVersion # rec.input.apiVersion
       => /\ Falsy(rec.input.apiVersion) /\ rec.spec.apiVersion = V1
          /\ PastKindCheck(rec)
    /\ rec.spec.metadata.present # rec.input.metadata.present
       => /\ ~rec.input.metadata.present /\ rec.spec.metadata.present
          /\ PastKindCheck(rec)
    /\ rec.spec.metadata.namespace # rec.input.metadata.namespace
       => /\ NamespaceDue(rec) /\ rec.spec.metadata.namespace = defaultNamespace
          /\ PastKindCheck(rec)

\* The gaps are filled: apiVersion and metadata once the kind check is
\* passed, the namespace once the kind has resolved.
GapsFilled(rec) ==
    /\ PastKindCheck(rec)
       => /\ rec.spec.apiVersion
                = IF Falsy(rec.input.apiVersion) THEN V1 ELSE rec.input.apiVersion
          /\ rec.spec.metadata.present
    /\ (PastKindCheck(rec) /\ NamespaceDue(rec))
       => rec.spec.metadata.namespace = defaultNamespace

\* C31: specUriPath changes the spec it is given only by filling what is
\* absent: apiVersion becomes 'v1', metadata an empty mapping, and
\* metadata.namespace the default namespace only for a namespaced kind on an
\* action other than list; kind, name and an apiVersion or namespace already
\* set stay as they are, and a spec rejected for its missing kind is as the
\* caller gave it.
C31_SpecFrame ==
    \A c \in Callers :
        call[c].pc # "idle"
        => /\ GivenStays(call[c])
           /\ OnlyGapsFilled(call[c])
           /\ GapsFilled(call[c])
           /\ call[c].error.name = "kindNotSet" => call[c].spec = call[c].input

\* specUriPath called for create on a spec with nothing but a kind, all three
\* defaults filled in.
C31_Witness ==
    \E c \in Callers :
        /\ call[c].method = "specUriPath" /\ call[c].action = "create"
        /\ call[c].pc = "fulfilled"
        /\ call[c].input = KubernetesObject(Undefined, Pod, NoMetadata)
        /\ call[c].spec = KubernetesObject(V1, Pod, Metadata(defaultNamespace, Undefined))

====
